---- MODULE Spec2Model ----
(***************************************************************************)
(* Verification model of the LXD CSI driver's controller service           *)
(* (canonical/lxd-csi-driver, internal/driver).                            *)
(*                                                                         *)
(* Every gRPC handler runs on its own goroutine.  A handler is modelled as *)
(* a sequence of atomic steps, cut at the points where the Go code blocks: *)
(* the session accessor, every DevLXD API round trip, and the wait for a   *)
(* DevLXD operation.  The remote LXD server is the shared state the        *)
(* handlers read and write; the lock table of lxd/locking is the only      *)
(* state shared inside the process.                                        *)
(*                                                                         *)
(* Strings the code cuts, splits or concatenates are sequences of          *)
(* one-character strings, so that getVolumeID / splitVolumeID and the name *)
(* derivation are computed the way the code computes them.                 *)
(***************************************************************************)
EXTENDS Integers, Sequences, FiniteSets, TLC

VARIABLES
    locks,          \* lxd/locking: the set of lock names currently held
    volumes,        \* remote: custom volumes, <<member, pool, name>> -> [size, contentType]
    instances,      \* remote: instance name -> [devices, etag]
    snapshots,      \* remote: set of <<member, pool, volume, snapshot>>
    isClustered,    \* Driver.isClustered
    volumeNamePrefix, \* Driver.volumeNamePrefix
    hasDevLXDTokenChanged, \* Driver.hasDevLXDTokenChanged
    devLXD,         \* Driver.devLXD: the cached client, with the token it carries
    location,       \* Driver.location
    lock,           \* Driver.lock: the goroutine holding the mutex (0: none)
    tokenFile,      \* the version of the bearer token in the token file
    watched,        \* the version of the token file at the watcher's latest report
                    \* (SpecWatch: the fsnotify watcher, its Events and its context)
    node,           \* the node's file system: mount table, volume directories, disk devices
    h,              \* handler goroutine -> its position and locals
    last,           \* the most recent response a handler returned
    calls           \* number of RPCs the orchestrator has issued so far

vars == <<locks, volumes, instances, snapshots, isClustered, volumeNamePrefix,
          hasDevLXDTokenChanged, devLXD, location, lock, tokenFile, watched, node, h, last, calls>>

---------------------------------------------------------------------------
(* Bounds of the model. *)

\* Total number of RPCs the orchestrator issues in one behaviour.
MaxCalls == 3

\* Requested capacities range over 0..MaxBytes (0 is the invalid one).
MaxBytes == 2

\* The handler goroutines that may run at the same time.
Procs == {1, 2, 3}

---------------------------------------------------------------------------
(* String helpers (Go's strings package on sequences of characters). *)

Contains(s, c) == \E i \in 1..Len(s) : s[i] = c

IndexOf(s, c) == CHOOSE i \in 1..Len(s) : s[i] = c /\ \A j \in 1..(i-1) : s[j] # c

\* strings.Cut(s, sep) for a one-character separator.
Cut(s, c) ==
    IF Contains(s, c)
    THEN [before |-> SubSeq(s, 1, IndexOf(s, c) - 1),
          after  |-> SubSeq(s, IndexOf(s, c) + 1, Len(s)),
          found  |-> TRUE]
    ELSE [before |-> s, after |-> <<>>, found |-> FALSE]

\* strings.ReplaceAll(s, c, "")
RemoveAll(s, c) == SelectSeq(s, LAMBDA x : x # c)

\* strings.Split(s, sep) for a one-character separator: always at least one part.
RECURSIVE Split(_, _)
Split(s, c) ==
    IF Contains(s, c)
    THEN <<Cut(s, c).before>> \o Split(Cut(s, c).after, c)
    ELSE <<s>>

\* strconv.FormatInt(n, 10) for n >= 0.
Digits == <<"0", "1", "2", "3", "4", "5", "6", "7", "8", "9">>

RECURSIVE FormatInt(_)
FormatInt(n) ==
    IF n < 10 THEN <<Digits[n + 1]>>
    ELSE FormatInt(n \div 10) \o <<Digits[(n % 10) + 1]>>

IsDigit(c) == \E i \in 1..10 : Digits[i] = c

DigitValue(c) == (CHOOSE i \in 1..10 : Digits[i] = c) - 1

RECURSIVE ParseDigits(_)
ParseDigits(s) ==
    IF s = <<>> THEN 0
    ELSE 10 * ParseDigits(SubSeq(s, 1, Len(s) - 1)) + DigitValue(s[Len(s)])

\* strconv.ParseInt(s, 10, 64) on unsigned decimal text: [ok, value].
ParseInt(s) ==
    IF s # <<>> /\ \A i \in 1..Len(s) : IsDigit(s[i])
    THEN [ok |-> TRUE, value |-> ParseDigits(s)]
    ELSE [ok |-> FALSE, value |-> 0]

---------------------------------------------------------------------------
(* Errors and their classification. *)

Nil == [kind |-> "nil", code |-> 0]
StatusError(c) == [kind |-> "status", code |-> c]
CtxDeadline == [kind |-> "deadline", code |-> 0]
CtxCanceled == [kind |-> "canceled", code |-> 0]
OtherError == [kind |-> "other", code |-> 0]

\* api.StatusErrorCheck(err, code)
StatusErrorCheck(err, c) == err.kind = "status" /\ err.code = c

\* A classifier that passes the remote precondition failure on as such.
ToGRPCCodePrecondition(err) ==
    IF err = Nil THEN "OK"
    ELSE IF StatusErrorCheck(err, 400) THEN "InvalidArgument"
    ELSE IF StatusErrorCheck(err, 401) THEN "Unauthenticated"
    ELSE IF StatusErrorCheck(err, 403) THEN "PermissionDenied"
    ELSE IF StatusErrorCheck(err, 404) THEN "NotFound"
    ELSE IF StatusErrorCheck(err, 409) THEN "AlreadyExists"
    ELSE IF StatusErrorCheck(err, 412) THEN "FailedPrecondition"
    ELSE IF err.kind = "deadline" THEN "DeadlineExceeded"
    ELSE IF err.kind = "canceled" THEN "Canceled"
    ELSE "Internal"

\* errors.ToGRPCCode
ToGRPCCode(err) ==
    IF err = Nil THEN "OK"
    ELSE IF StatusErrorCheck(err, 400) THEN "InvalidArgument"
    ELSE IF StatusErrorCheck(err, 401) THEN "Unauthenticated"
    ELSE IF StatusErrorCheck(err, 403) THEN "PermissionDenied"
    ELSE IF StatusErrorCheck(err, 404) THEN "NotFound"
    ELSE IF StatusErrorCheck(err, 409) THEN "AlreadyExists"
    ELSE IF StatusErrorCheck(err, 412) THEN "Unavailable"
    ELSE IF err.kind = "deadline" THEN "DeadlineExceeded"
    ELSE IF err.kind = "canceled" THEN "Canceled"
    ELSE "Internal"

---------------------------------------------------------------------------
(* Identifier codec. *)

\* An encoding that writes the colon even without a cluster member.
getVolumeIDWithColon(clusterMember, poolName, volName) ==
    clusterMember \o <<":">> \o poolName \o <<"/">> \o volName

\* getVolumeID: "[<clusterMember>:]<poolName>/<volumeName>"
getVolumeID(clusterMember, poolName, volName) ==
    LET volumeID == poolName \o <<"/">> \o volName
    IN  IF clusterMember # <<>> THEN clusterMember \o <<":">> \o volumeID ELSE volumeID

\* splitVolumeID: [ok, clusterMember, poolName, volName]
splitVolumeID(volumeID) ==
    LET hasMember == Contains(volumeID, ":")
        member    == IF hasMember THEN Cut(volumeID, ":").before ELSE <<>>
        rest      == IF hasMember THEN Cut(volumeID, ":").after ELSE volumeID
        parts     == Split(rest, "/")
    IN  IF rest = <<>> \/ Len(parts) # 2
        THEN [ok |-> FALSE, clusterMember |-> <<>>, poolName |-> <<>>, volName |-> <<>>]
        ELSE [ok |-> TRUE, clusterMember |-> member, poolName |-> parts[1], volName |-> parts[2]]

---------------------------------------------------------------------------
(* Driver constants and the remote platform's static data. *)

ParameterStoragePool == "storagePool"
ParameterStorageDriver == "internal.storageDriver"
ParameterPVCName == "csi.storage.k8s.io/pvc/name"

\* strings.HasPrefix(k, "csi.storage.k8s.io/") on the parameter keys of the model.
HasCSIPrefix(k) == k \in {"csi.storage.k8s.io/pvc/name", "csi.storage.k8s.io/pvc/namespace",
                          "csi.storage.k8s.io/pv/name"}

\* state.SupportedStorageDrivers as the server reports it.
SupportedStorageDrivers ==
    <<[Name |-> "dir", Remote |-> FALSE],
      [Name |-> "ceph", Remote |-> TRUE],
      [Name |-> "cephobject", Remote |-> TRUE]>>

\* The storage pools of the server and their drivers ("" : no such pool).
PoolDriver(poolName) ==
    IF poolName = <<"p">> THEN "dir"
    ELSE IF poolName = <<"r">> THEN "ceph"
    ELSE ""

NoVolume == [size |-> <<>>, contentType |-> "none"]

\* The outcomes a DevLXD call can have besides its regular one.
RemoteFailures == {StatusError(500)}
WaitFailures == {StatusError(500), CtxDeadline}

---------------------------------------------------------------------------
(* Capabilities. *)

\* ValidateVolumeCapabilities: TRUE iff no error.  A capability is "block", "mount"
\* or "none" (neither access type set).
ValidateVolumeCapabilities(volCaps) ==
    LET accessTypeBlock == \E i \in 1..Len(volCaps) : volCaps[i] = "block"
        accessTypeMount == \E i \in 1..Len(volCaps) : volCaps[i] = "mount"
    IN  /\ Len(volCaps) # 0
        /\ accessTypeBlock \/ accessTypeMount
        /\ ~(accessTypeBlock /\ accessTypeMount)

\* ParseContentType: the content type of the first capability that has an access type.
RECURSIVE ParseContentType(_)
ParseContentType(volCaps) ==
    IF volCaps = <<>> THEN ""
    ELSE IF Head(volCaps) = "block" THEN "block"
    ELSE IF Head(volCaps) = "mount" THEN "filesystem"
    ELSE ParseContentType(Tail(volCaps))

---------------------------------------------------------------------------
(* Handler bookkeeping. *)

NoReq == [rpc |-> "none"]
NoResp == [kind |-> "none"]
NoSource == [target |-> <<>>, pool |-> <<>>, vol |-> <<>>]

Idle ==
    [pc |-> "idle", req |-> NoReq, member |-> <<>>, target |-> <<>>, pool |-> <<>>,
     vol |-> <<>>, ctype |-> "", id |-> <<>>, locked |-> FALSE, etag |-> NoVolume,
     src |-> NoSource, driver |-> "", muts |-> 0, err |-> Nil, refreshed |-> FALSE]

\* A handler starting on request r, nothing resolved yet.  Its call of DevLXDClient
\* re-reads the token file and queries the server iff the token has changed.
Fresh(r) == [Idle EXCEPT !.req = r, !.refreshed = hasDevLXDTokenChanged]

\* locking.TryLock(name): the lock is obtained iff nobody holds it.
TryLock(name) == name \notin locks

\* The unlock function TryLock returned: removes the entry from the table.
Unlock(name) == locks \ {name}

\* A handler that returns without running the unlock function.
AfterDefersSkipped(hp) == locks

\* The lock table once the handler whose locals are hp has returned
\* (defer unlock() runs iff the lock was obtained).
AfterDefers(hp) == IF hp.locked THEN Unlock(hp.id) ELSE locks

\* The handler at p returns status code `code` and response `resp`.
Return(p, hp, code, resp) ==
    /\ last' = [req |-> hp.req, code |-> code, resp |-> resp, muts |-> hp.muts,
                id |-> hp.id, locked |-> hp.locked, err |-> hp.err,
                refreshed |-> hp.refreshed]
    /\ h' = [h EXCEPT ![p] = Idle]
    /\ locks' = AfterDefers(hp)

\* return nil, status.Errorf(errors.ToGRPCCode(err), ...): the handler at p returns
\* the status code of the error err of a remote call.
Fail(p, hp, err) == Return(p, [hp EXCEPT !.err = err], ToGRPCCode(err), NoResp)

\* The handler at p goes on with locals hp.
Continue(p, hp) ==
    /\ h' = [h EXCEPT ![p] = hp]
    /\ UNCHANGED <<last, locks>>

\* The orchestrator may issue one more RPC, served by the first free goroutine.
\* The errors DevLXDClient can return: none while the connected client is cached;
\* after a token change, reading the token file, GetState or the trust check can fail.
DevLXDClientErrors ==
    IF hasDevLXDTokenChanged THEN {Nil, OtherError, StatusError(500)} ELSE {Nil}

\* Driver.DevLXDClient returning err: a successful refresh clears the flag; the
\* server reports the clustering it reported at start.
DevLXDClient(err) ==
    /\ lock = 0
    /\ hasDevLXDTokenChanged' = IF err = Nil THEN FALSE ELSE hasDevLXDTokenChanged
    /\ devLXD' = IF err = Nil /\ hasDevLXDTokenChanged THEN [token |-> tokenFile] ELSE devLXD
    /\ UNCHANGED <<isClustered, location, lock, tokenFile, watched, node>>

\* The main goroutine, which executes Driver.Run (the handler goroutines are Procs).
Main == 4

\* The token-file watcher runs from the return of fs.WatchFile until Run returns;
\* where the model holds no main goroutine, Run is serving.
WatcherRunning == Main \in DOMAIN h => h[Main].pc \in {"run_listen", "serving"}

\* A callback that sets the flag without taking the driver mutex.
handleTokenFileChangeUnlocked ==
    /\ WatcherRunning
    /\ hasDevLXDTokenChanged' = TRUE
    /\ watched' = tokenFile
    /\ UNCHANGED <<volumes, instances, snapshots, locks, isClustered, volumeNamePrefix,
                   devLXD, location, lock, tokenFile, node, h, last, calls>>

\* The token-file watcher's callback (Driver.Run, handleTokenFileChange): under the
\* driver mutex, mark the token as changed.
handleTokenFileChange ==
    /\ WatcherRunning
    /\ lock = 0
    /\ hasDevLXDTokenChanged' = TRUE
    /\ watched' = tokenFile
    /\ UNCHANGED <<volumes, instances, snapshots, locks, isClustered, volumeNamePrefix,
                   devLXD, location, lock, tokenFile, node, h, last, calls>>

CanStart(p) ==
    /\ calls < MaxCalls
    /\ h[p].pc = "idle"
    /\ \A q \in Procs : q < p => h[q].pc # "idle"

Remote == <<volumes, instances, snapshots>>
Config == <<isClustered, volumeNamePrefix, hasDevLXDTokenChanged, devLXD, location, lock,
            tokenFile, watched, node>>

\* The session of a driver that is serving: connected with the token of the token
\* file, the mutex free, the watcher started on that version of the file.
SessionReady ==
    /\ devLXD = [token |-> 0]
    /\ location = <<>>
    /\ lock = 0
    /\ tokenFile = 0
    /\ watched = 0

\* A node with nothing mounted, no volume directory and no disk device.
NoMounts == [mounts |-> {}, paths |-> {}, disks |-> {}]

\* The key of a volume in the server's store, as seen through a client bound to member.
VolKey(member, poolName, volName) == <<member, poolName, volName>>

VolumeExists(k) == k \in DOMAIN volumes

---------------------------------------------------------------------------
(* CreateVolume *)

\* A derivation that keeps the dashes of the rest of the name.
DeriveNameKeepDashes(name, prefix) ==
    LET c == Cut(name, "-")
        volPrefix == IF prefix # <<>> THEN prefix ELSE c.before
    IN  volPrefix \o <<"-">> \o c.after

\* The remote volume name: prefix (configured, or the part before the first dash),
\* a dash, and the rest of the name with its dashes removed.
DeriveName(name, prefix) ==
    LET c == Cut(name, "-")
        volPrefix == IF prefix # <<>> THEN prefix ELSE c.before
    IN  volPrefix \o <<"-">> \o RemoveAll(c.after, "-")

\* The first preferred topology that carries the cluster-member segment ("" if none).
\* A topology is the value of its cluster-member segment, or "nokey" without one.
RECURSIVE PreferredTarget(_)
PreferredTarget(preferred) ==
    IF preferred = <<>> THEN <<>>
    ELSE IF Head(preferred) # "nokey" THEN Head(preferred)
    ELSE PreferredTarget(Tail(preferred))

\* A parameter loop that also lets the internal driver key through.
ParametersValidInternal(parameters) ==
    \A k \in DOMAIN parameters :
        HasCSIPrefix(k) \/ k \in {ParameterStoragePool, ParameterStorageDriver}

\* The storage-class parameter loop: TRUE iff every key is accepted.
ParametersValid(parameters) ==
    \A k \in DOMAIN parameters : HasCSIPrefix(k) \/ k = ParameterStoragePool

ParamValue(parameters, k) == IF k \in DOMAIN parameters THEN parameters[k] ELSE <<>>

\* Session accessor, then local validation (lines 44-106).
CreateVolumeEntry(p, r) ==
    /\ r.rpc = "CreateVolume"
    /\ UNCHANGED <<Remote, volumeNamePrefix>>
    /\ \E e \in DevLXDClientErrors :
        /\ DevLXDClient(e)
        /\ LET hp == Fresh(r)
               volName == DeriveName(r.name, volumeNamePrefix)
               contentType == ParseContentType(r.caps)
               poolName == ParamValue(r.params, ParameterStoragePool)
           IN  IF e # Nil THEN Fail(p, hp, e)
               ELSE IF ~Cut(r.name, "-").found THEN Return(p, hp, "InvalidArgument", NoResp)
               ELSE IF ~ValidateVolumeCapabilities(r.caps) THEN Return(p, hp, "InvalidArgument", NoResp)
               ELSE IF contentType = "" THEN Return(p, hp, "InvalidArgument", NoResp)
               ELSE IF r.bytes < 1 THEN Return(p, hp, "InvalidArgument", NoResp)
               ELSE IF ~ParametersValid(r.params) THEN Return(p, hp, "InvalidArgument", NoResp)
               ELSE IF poolName = <<>> THEN Return(p, hp, "InvalidArgument", NoResp)
               ELSE Continue(p, [hp EXCEPT !.pc = "cv_pool", !.vol = volName,
                                           !.ctype = contentType, !.pool = poolName])

\* The orchestrator issues a CreateVolume, served by the first free goroutine.
CreateVolumeBegin(p, r) ==
    /\ CanStart(p)
    /\ calls' = calls + 1
    /\ CreateVolumeEntry(p, r)

\* The driver entry of state.SupportedStorageDrivers matching the pool's driver.
MatchDriver(name) ==
    LET found == {i \in 1..Len(SupportedStorageDrivers) : SupportedStorageDrivers[i].Name = name}
    IN  IF found = {} THEN [Name |-> "", Remote |-> FALSE]
        ELSE SupportedStorageDrivers[CHOOSE i \in found : \A j \in found : i <= j]

\* A CreateVolume that puts into the volume ID the member its client is bound to,
\* which is set only on a clustered server.
CreateVolumeResolvePoolBoundMember(p) ==
    /\ h[p].pc = "cv_pool"
    /\ UNCHANGED <<Remote, Config, calls>>
    /\ \E e \in {Nil} \cup RemoteFailures :
        LET hp == h[p]
            poolDriver == PoolDriver(hp.pool)
            driver == MatchDriver(poolDriver)
            target == IF ~driver.Remote THEN PreferredTarget(hp.req.preferred) ELSE <<>>
            member == IF target # <<>> /\ isClustered THEN target ELSE <<>>
        IN  IF e # Nil THEN Fail(p, hp, e)
            ELSE IF poolDriver = "" THEN Fail(p, hp, StatusError(404))
            ELSE IF driver.Name = "" \/ driver.Name = "cephobject"
                 THEN Return(p, hp, "InvalidArgument", NoResp)
            ELSE Continue(p, [hp EXCEPT !.pc = "cv_lock", !.driver = driver.Name,
                                        !.target = target, !.member = member,
                                        !.id = getVolumeID(member, hp.pool, hp.vol)])

\* GetStoragePool, GetState, driver check, target selection, volume ID (lines 108-182).
CreateVolumeResolvePool(p) ==
    /\ h[p].pc = "cv_pool"
    /\ UNCHANGED <<Remote, Config, calls>>
    /\ \E e \in {Nil} \cup RemoteFailures :
        LET hp == h[p]
            poolDriver == PoolDriver(hp.pool)
            driver == MatchDriver(poolDriver)
            target == IF ~driver.Remote THEN PreferredTarget(hp.req.preferred) ELSE <<>>
            member == IF target # <<>> /\ isClustered THEN target ELSE <<>>
        IN  IF e # Nil THEN Fail(p, hp, e)
            ELSE IF poolDriver = "" THEN Fail(p, hp, StatusError(404))
            ELSE IF driver.Name = "" \/ driver.Name = "cephobject"
                 THEN Return(p, hp, "InvalidArgument", NoResp)
            ELSE Continue(p, [hp EXCEPT !.pc = "cv_lock", !.driver = driver.Name,
                                        !.target = target, !.member = member,
                                        !.id = getVolumeID(target, hp.pool, hp.vol)])

\* A CreateVolume that goes on whether or not TryLock gave it the lock.
CreateVolumeTryLockUnchecked(p) ==
    /\ h[p].pc = "cv_lock"
    /\ UNCHANGED <<Remote, Config, calls, last>>
    /\ locks' = locks \cup {h[p].id}
    /\ h' = [h EXCEPT ![p] = [h[p] EXCEPT !.pc = "cv_getvol", !.locked = TRUE]]

\* unlock := locking.TryLock(volumeID) (lines 184-189).
CreateVolumeTryLock(p) ==
    /\ h[p].pc = "cv_lock"
    /\ UNCHANGED <<Remote, Config, calls>>
    /\ IF TryLock(h[p].id)
       THEN /\ locks' = locks \cup {h[p].id}
            /\ h' = [h EXCEPT ![p] = [h[p] EXCEPT !.pc = "cv_getvol", !.locked = TRUE]]
            /\ UNCHANGED last
       ELSE Return(p, h[p], "Aborted", NoResp)

\* A response whose volume context is the request's parameters as they came.
CreateVolumeResponseUnstamped(hp) ==
    [kind |-> "CreateVolume",
     volumeId |-> hp.id,
     capacityBytes |-> hp.req.bytes,
     volumeContext |-> hp.req.params,
     contentSource |-> hp.req.source,
     accessibleTopology |-> IF hp.target # <<>> THEN <<hp.target>> ELSE <<>>]

\* The response of a successful CreateVolume (lines 318-329).
CreateVolumeResponse(hp) ==
    [kind |-> "CreateVolume",
     volumeId |-> hp.id,
     capacityBytes |-> hp.req.bytes,
     volumeContext |-> [k \in DOMAIN hp.req.params \cup {ParameterStorageDriver} |->
                          IF k = ParameterStorageDriver THEN hp.driver ELSE hp.req.params[k]],
     contentSource |-> hp.req.source,
     accessibleTopology |-> IF hp.target # <<>> THEN <<hp.target>> ELSE <<>>]

\* A CreateVolume that answers with the existing volume when it has the requested
\* size and content type.
CreateVolumeExistingReused(p, hp) ==
    LET vol == volumes[VolKey(hp.member, hp.pool, hp.vol)]
    IN  IF vol.size = FormatInt(hp.req.bytes) /\ vol.contentType = hp.ctype
        THEN Return(p, hp, "OK", CreateVolumeResponse(hp))
        ELSE Return(p, hp, "AlreadyExists", NoResp)

\* GetStoragePoolVolume found the volume: the name is taken (lines 196-198).
CreateVolumeExisting(p, hp) == Return(p, hp, "AlreadyExists", NoResp)

\* A CreateVolume that creates an empty volume when the source is a snapshot.
CreateVolumeGetVolumeFromSnapshot(p) ==
    /\ h[p].pc = "cv_getvol"
    /\ UNCHANGED <<Remote, Config, calls>>
    /\ \E e \in {Nil} \cup RemoteFailures :
        LET hp == h[p]
            source == hp.req.source
            sid == splitVolumeID(source.id)
            sourceTarget == IF isClustered THEN sid.clusterMember ELSE <<>>
        IN  IF e # Nil THEN Fail(p, hp, e)
            ELSE IF VolumeExists(VolKey(hp.member, hp.pool, hp.vol))
                 THEN CreateVolumeExisting(p, hp)
            ELSE IF source.kind \in {"none", "snapshot"}
                 THEN Continue(p, [hp EXCEPT !.pc = "cv_create"])
            ELSE IF source.kind # "volume" THEN Return(p, hp, "InvalidArgument", NoResp)
            ELSE IF ~sid.ok THEN Return(p, hp, "InvalidArgument", NoResp)
            ELSE Continue(p, [hp EXCEPT !.pc = "cv_src",
                                        !.src = [target |-> sourceTarget,
                                                 pool |-> sid.poolName,
                                                 vol |-> sid.volName]])

\* Existence check under the lock, then the content-source dispatch (lines 191-237).
CreateVolumeGetVolume(p) ==
    /\ h[p].pc = "cv_getvol"
    /\ UNCHANGED <<Remote, Config, calls>>
    /\ \E e \in {Nil} \cup RemoteFailures :
        LET hp == h[p]
            source == hp.req.source
            sid == splitVolumeID(source.id)
            sourceTarget == IF isClustered THEN sid.clusterMember ELSE <<>>
        IN  IF e # Nil THEN Fail(p, hp, e)
            ELSE IF VolumeExists(VolKey(hp.member, hp.pool, hp.vol))
                 THEN CreateVolumeExisting(p, hp)
            ELSE IF source.kind = "none" THEN Continue(p, [hp EXCEPT !.pc = "cv_create"])
            ELSE IF source.kind = "snapshot" THEN Return(p, hp, "Unimplemented", NoResp)
            ELSE IF source.kind # "volume" THEN Return(p, hp, "InvalidArgument", NoResp)
            ELSE IF ~sid.ok THEN Return(p, hp, "InvalidArgument", NoResp)
            ELSE Continue(p, [hp EXCEPT !.pc = "cv_src",
                                        !.src = [target |-> sourceTarget,
                                                 pool |-> sid.poolName,
                                                 vol |-> sid.volName]])

\* A source check that lets a source larger than the request through.
CreateVolumeGetSourceAnySize(p) ==
    /\ h[p].pc = "cv_src"
    /\ UNCHANGED <<Remote, Config, calls>>
    /\ \E e \in {Nil} \cup RemoteFailures :
        LET hp == h[p]
            k == VolKey(hp.src.target, hp.src.pool, hp.src.vol)
            sourceVol == volumes[k]
            size == ParseInt(sourceVol.size)
        IN  IF e # Nil THEN Fail(p, hp, e)
            ELSE IF ~VolumeExists(k) THEN Fail(p, hp, StatusError(404))
            ELSE IF sourceVol.contentType # hp.ctype THEN Return(p, hp, "InvalidArgument", NoResp)
            ELSE IF sourceVol.size = <<>> THEN Return(p, hp, "FailedPrecondition", NoResp)
            ELSE IF ~size.ok THEN Return(p, hp, "Internal", NoResp)
            ELSE Continue(p, [hp EXCEPT !.pc = "cv_create"])

\* Fetch the clone source and check it against the request (lines 239-262).
CreateVolumeGetSource(p) ==
    /\ h[p].pc = "cv_src"
    /\ UNCHANGED <<Remote, Config, calls>>
    /\ \E e \in {Nil} \cup RemoteFailures :
        LET hp == h[p]
            k == VolKey(hp.src.target, hp.src.pool, hp.src.vol)
            sourceVol == volumes[k]
            size == ParseInt(sourceVol.size)
        IN  IF e # Nil THEN Fail(p, hp, e)
            ELSE IF ~VolumeExists(k) THEN Fail(p, hp, StatusError(404))
            ELSE IF sourceVol.contentType # hp.ctype THEN Return(p, hp, "InvalidArgument", NoResp)
            ELSE IF sourceVol.size = <<>> THEN Return(p, hp, "FailedPrecondition", NoResp)
            ELSE IF ~size.ok THEN Return(p, hp, "Internal", NoResp)
            ELSE IF size.value > hp.req.bytes THEN Return(p, hp, "InvalidArgument", NoResp)
            ELSE Continue(p, [hp EXCEPT !.pc = "cv_create"])

\* A CreateVolume that sends the create request again when it fails.
CreateVolumeRequestRetried(p) ==
    /\ h[p].pc = "cv_create"
    /\ UNCHANGED <<Remote, Config, calls>>
    /\ \E e \in {Nil} \cup RemoteFailures :
        LET hp == [h[p] EXCEPT !.muts = @ + 1]
        IN  IF e # Nil /\ hp.muts <= 1 THEN Continue(p, hp)
            ELSE IF e # Nil THEN Fail(p, hp, e)
            ELSE Continue(p, [hp EXCEPT !.pc = "cv_wait"])

\* client.CreateStoragePoolVolume: the request is sent (lines 268-287, 296-309).
CreateVolumeRequest(p) ==
    /\ h[p].pc = "cv_create"
    /\ UNCHANGED <<Remote, Config, calls>>
    /\ \E e \in {Nil} \cup RemoteFailures :
        LET hp == [h[p] EXCEPT !.muts = @ + 1]
        IN  IF e # Nil THEN Fail(p, hp, e)
            ELSE Continue(p, [hp EXCEPT !.pc = "cv_wait"])

\* The volume the create request asks for.
NewVolume(hp) == [size |-> FormatInt(hp.req.bytes), contentType |-> hp.ctype]

\* op.WaitContext(ctx), then the response (lines 288-329).  The server carries the
\* operation out when the wait ends; if the context ends first the operation may or
\* may not have been carried out.
CreateVolumeWait(p) ==
    /\ h[p].pc = "cv_wait"
    /\ UNCHANGED <<instances, snapshots, Config, calls>>
    /\ LET hp == h[p]
           k == VolKey(hp.member, hp.pool, hp.vol)
           srcGone == hp.src # NoSource
                      /\ ~VolumeExists(VolKey(hp.src.target, hp.src.pool, hp.src.vol))
           created == [x \in DOMAIN volumes \cup {k} |->
                         IF x = k THEN NewVolume(hp) ELSE volumes[x]]
       IN  \E e \in {Nil} \cup WaitFailures :
            IF e = Nil
            THEN IF VolumeExists(k)
                 THEN Fail(p, hp, StatusError(409))
                      /\ UNCHANGED volumes
                 ELSE IF srcGone
                 THEN Fail(p, hp, StatusError(404))
                      /\ UNCHANGED volumes
                 ELSE Return(p, hp, "OK", CreateVolumeResponse(hp))
                      /\ volumes' = created
            ELSE /\ Fail(p, hp, e)
                 /\ \/ UNCHANGED volumes
                    \/ e = CtxDeadline /\ ~VolumeExists(k) /\ ~srcGone /\ volumes' = created

---------------------------------------------------------------------------
(* DeleteVolume *)

\* A DeleteVolume that locks the storage pool instead of the volume.
DeleteVolumeLockPool(r) == splitVolumeID(r.volumeId).poolName

\* The name DeleteVolume locks: the volume ID of the request (line 349).
DeleteVolumeLockName(r) == r.volumeId

\* Session accessor, identifier decoding, target binding (lines 334-347).
DeleteVolumeBegin(p, r) ==
    /\ CanStart(p)
    /\ r.rpc = "DeleteVolume"
    /\ calls' = calls + 1
    /\ UNCHANGED <<Remote, volumeNamePrefix>>
    /\ \E e \in DevLXDClientErrors :
        /\ DevLXDClient(e)
        /\ LET hp == Fresh(r)
               sid == splitVolumeID(r.volumeId)
           IN  IF e # Nil THEN Fail(p, hp, e)
               ELSE IF ~sid.ok THEN Return(p, hp, "InvalidArgument", NoResp)
               ELSE Continue(p, [hp EXCEPT !.pc = "dv_lock", !.target = sid.clusterMember,
                                           !.member = IF sid.clusterMember # <<>> /\ isClustered
                                                      THEN sid.clusterMember ELSE <<>>,
                                           !.pool = sid.poolName, !.vol = sid.volName,
                                           !.id = DeleteVolumeLockName(r)])

\* A DeleteVolume that waits for the lock, as a blocking locking.Lock would.
DeleteVolumeLockWait(p) ==
    /\ h[p].pc = "dv_lock"
    /\ UNCHANGED <<Remote, Config, calls, last>>
    /\ TryLock(h[p].id)
    /\ locks' = locks \cup {h[p].id}
    /\ h' = [h EXCEPT ![p] = [h[p] EXCEPT !.pc = "dv_delete", !.locked = TRUE]]

\* unlock := locking.TryLock(req.VolumeId) (lines 349-354).
DeleteVolumeTryLock(p) ==
    /\ h[p].pc = "dv_lock"
    /\ UNCHANGED <<Remote, Config, calls>>
    /\ IF TryLock(h[p].id)
       THEN /\ locks' = locks \cup {h[p].id}
            /\ h' = [h EXCEPT ![p] = [h[p] EXCEPT !.pc = "dv_delete", !.locked = TRUE]]
            /\ UNCHANGED last
       ELSE Return(p, h[p], "Aborted", NoResp)

\* A DeleteVolume that reports every error of the remote delete.
DeleteVolumeFailedAny(err) == err # Nil

\* err != nil && !api.StatusErrorCheck(err, http.StatusNotFound) (line 362).
DeleteVolumeFailed(err) == err # Nil /\ ~StatusErrorCheck(err, 404)

\* client.DeleteStoragePoolVolume: the request is sent (line 358).
DeleteVolumeRequest(p) ==
    /\ h[p].pc = "dv_delete"
    /\ UNCHANGED <<Remote, Config, calls>>
    /\ \E e \in {Nil} \cup RemoteFailures :
        LET hp == [h[p] EXCEPT !.muts = @ + 1]
        IN  IF DeleteVolumeFailed(e) THEN Fail(p, hp, e)
            ELSE Continue(p, [hp EXCEPT !.pc = "dv_wait"])

\* op.WaitContext(ctx); Not Found counts as success (lines 359-367).
DeleteVolumeWait(p) ==
    /\ h[p].pc = "dv_wait"
    /\ UNCHANGED <<instances, Config, calls>>
    /\ LET hp == h[p]
           k == VolKey(hp.member, hp.pool, hp.vol)
           deleted == /\ volumes' = [x \in DOMAIN volumes \ {k} |-> volumes[x]]
                      /\ snapshots' = {s \in snapshots : <<s[1], s[2], s[3]>> # k}
       IN  \E e \in {Nil} \cup WaitFailures :
            LET err == IF e = Nil /\ ~VolumeExists(k) THEN StatusError(404) ELSE e
            IN  /\ IF DeleteVolumeFailed(err)
                   THEN Fail(p, hp, err)
                   ELSE Return(p, [hp EXCEPT !.err = err], "OK", [kind |-> "DeleteVolume"])
                /\ IF e = Nil /\ VolumeExists(k) THEN deleted
                   ELSE \/ UNCHANGED <<volumes, snapshots>>
                        \/ e = CtxDeadline /\ VolumeExists(k) /\ deleted

---------------------------------------------------------------------------
(* ControllerExpandVolume *)

\* Session accessor, identifier decoding, target binding, capability check (lines 599-617).
ControllerExpandVolumeBegin(p, r) ==
    /\ CanStart(p)
    /\ r.rpc = "ControllerExpandVolume"
    /\ calls' = calls + 1
    /\ UNCHANGED <<Remote, volumeNamePrefix>>
    /\ \E e \in DevLXDClientErrors :
        /\ DevLXDClient(e)
        /\ LET hp == Fresh(r)
               sid == splitVolumeID(r.volumeId)
           IN  IF e # Nil THEN Fail(p, hp, e)
               ELSE IF ~sid.ok THEN Return(p, hp, "InvalidArgument", NoResp)
               ELSE IF ~ValidateVolumeCapabilities(<<r.cap>>)
                    THEN Return(p, hp, "InvalidArgument", NoResp)
               ELSE Continue(p, [hp EXCEPT !.pc = "ev_lock", !.target = sid.clusterMember,
                                           !.member = IF sid.clusterMember # <<>> /\ isClustered
                                                      THEN sid.clusterMember ELSE <<>>,
                                           !.pool = sid.poolName, !.vol = sid.volName,
                                           !.id = r.volumeId])

\* unlock := locking.TryLock(req.VolumeId) (lines 619-624).
ControllerExpandVolumeTryLock(p) ==
    /\ h[p].pc = "ev_lock"
    /\ UNCHANGED <<Remote, Config, calls>>
    /\ IF TryLock(h[p].id)
       THEN /\ locks' = locks \cup {h[p].id}
            /\ h' = [h EXCEPT ![p] = [h[p] EXCEPT !.pc = "ev_get", !.locked = TRUE]]
            /\ UNCHANGED last
       ELSE Return(p, h[p], "Aborted", NoResp)

ExpandResponse(newSizeBytes) ==
    [kind |-> "ControllerExpandVolume", capacityBytes |-> newSizeBytes,
     nodeExpansionRequired |-> FALSE]

\* A comparison that lets a smaller size through to the update.
CompareSizesNoShrink(newSizeBytes, oldSizeBytes) ==
    IF newSizeBytes = oldSizeBytes THEN "same" ELSE "grow"

\* The comparison of the requested size with the configured one (lines 641-658):
\* "shrink", "same" or "grow".
CompareSizes(newSizeBytes, oldSizeBytes) ==
    IF newSizeBytes < oldSizeBytes THEN "shrink"
    ELSE IF newSizeBytes = oldSizeBytes THEN "same"
    ELSE "grow"

\* Fetch the volume and compare the sizes (lines 626-658).
ControllerExpandVolumeGet(p) ==
    /\ h[p].pc = "ev_get"
    /\ UNCHANGED <<Remote, Config, calls>>
    /\ \E e \in {Nil} \cup RemoteFailures :
        LET hp == h[p]
            k == VolKey(hp.member, hp.pool, hp.vol)
            vol == volumes[k]
            oldSize == ParseInt(vol.size)
            newSizeBytes == hp.req.bytes
            cmp == CompareSizes(newSizeBytes, oldSize.value)
        IN  IF e # Nil THEN Fail(p, hp, e)
            ELSE IF ~VolumeExists(k) THEN Fail(p, hp, StatusError(404))
            ELSE IF vol.size = <<>> THEN Return(p, hp, "Internal", NoResp)
            ELSE IF ~oldSize.ok THEN Return(p, hp, "Internal", NoResp)
            ELSE IF cmp = "shrink" THEN Return(p, hp, "InvalidArgument", NoResp)
            ELSE IF cmp = "same" THEN Return(p, hp, "OK", ExpandResponse(newSizeBytes))
            ELSE Continue(p, [hp EXCEPT !.pc = "ev_update", !.etag = vol])

\* client.UpdateStoragePoolVolume with the ETag of the fetched volume (lines 660-667).
ControllerExpandVolumeRequest(p) ==
    /\ h[p].pc = "ev_update"
    /\ UNCHANGED <<Remote, Config, calls>>
    /\ \E e \in {Nil} \cup RemoteFailures :
        LET hp == [h[p] EXCEPT !.muts = @ + 1]
            k == VolKey(hp.member, hp.pool, hp.vol)
        IN  IF e # Nil THEN Fail(p, hp, e)
            ELSE IF ~VolumeExists(k) THEN Fail(p, hp, StatusError(404))
            ELSE IF volumes[k] # hp.etag THEN Fail(p, hp, StatusError(412))
            ELSE Continue(p, [hp EXCEPT !.pc = "ev_wait"])

\* op.WaitContext(ctx), then the response (lines 668-680).
ControllerExpandVolumeWait(p) ==
    /\ h[p].pc = "ev_wait"
    /\ UNCHANGED <<instances, snapshots, Config, calls>>
    /\ LET hp == h[p]
           k == VolKey(hp.member, hp.pool, hp.vol)
           resized == volumes' = [volumes EXCEPT ![k].size = FormatInt(hp.req.bytes)]
       IN  \E e \in {Nil} \cup WaitFailures :
            IF e = Nil
            THEN IF VolumeExists(k)
                 THEN Return(p, hp, "OK", ExpandResponse(hp.req.bytes)) /\ resized
                 ELSE Fail(p, hp, StatusError(404)) /\ UNCHANGED volumes
            ELSE /\ Fail(p, hp, e)
                 /\ \/ UNCHANGED volumes
                    \/ e = CtxDeadline /\ VolumeExists(k) /\ resized

---------------------------------------------------------------------------
(* ControllerPublishVolume / ControllerUnpublishVolume *)

driverFileSystemMountPath == "/mnt/lxd-csi"

\* Session accessor, identifier decoding, target binding, content type (lines 486-504).
ControllerPublishVolumeBegin(p, r) ==
    /\ CanStart(p)
    /\ r.rpc = "ControllerPublishVolume"
    /\ calls' = calls + 1
    /\ UNCHANGED <<Remote, volumeNamePrefix>>
    /\ \E e \in DevLXDClientErrors :
        /\ DevLXDClient(e)
        /\ LET hp == Fresh(r)
               sid == splitVolumeID(r.volumeId)
               contentType == ParseContentType(<<r.cap>>)
           IN  IF e # Nil THEN Fail(p, hp, e)
               ELSE IF ~sid.ok THEN Return(p, hp, "InvalidArgument", NoResp)
               ELSE IF contentType = "" THEN Return(p, hp, "InvalidArgument", NoResp)
               ELSE Continue(p, [hp EXCEPT !.pc = "pv_lock", !.target = sid.clusterMember,
                                           !.member = IF sid.clusterMember # <<>> /\ isClustered
                                                      THEN sid.clusterMember ELSE <<>>,
                                           !.pool = sid.poolName, !.vol = sid.volName,
                                           !.ctype = contentType, !.id = r.volumeId])

\* unlock := locking.TryLock(req.VolumeId) (lines 506-511).
ControllerPublishVolumeTryLock(p) ==
    /\ h[p].pc = "pv_lock"
    /\ UNCHANGED <<Remote, Config, calls>>
    /\ IF TryLock(h[p].id)
       THEN /\ locks' = locks \cup {h[p].id}
            /\ h' = [h EXCEPT ![p] = [h[p] EXCEPT !.pc = "pv_getvol", !.locked = TRUE]]
            /\ UNCHANGED last
       ELSE Return(p, h[p], "Aborted", NoResp)

\* A ControllerPublishVolume that goes on whether or not the volume exists.
ControllerPublishVolumeGetVolumeUnchecked(p) ==
    /\ h[p].pc = "pv_getvol"
    /\ UNCHANGED <<Remote, Config, calls>>
    /\ \E e \in {Nil} \cup RemoteFailures :
        LET hp == h[p]
        IN  IF e # Nil THEN Fail(p, hp, e)
            ELSE Continue(p, [hp EXCEPT !.pc = "pv_getinst"])

\* The volume must exist (lines 513-521).
ControllerPublishVolumeGetVolume(p) ==
    /\ h[p].pc = "pv_getvol"
    /\ UNCHANGED <<Remote, Config, calls>>
    /\ \E e \in {Nil} \cup RemoteFailures :
        LET hp == h[p]
        IN  IF e # Nil THEN Fail(p, hp, e)
            ELSE IF ~VolumeExists(VolKey(hp.member, hp.pool, hp.vol))
                 THEN Return(p, hp, "NotFound", NoResp)
            ELSE Continue(p, [hp EXCEPT !.pc = "pv_getinst"])

InstanceExists(n) == n \in DOMAIN instances

\* The disk device ControllerPublishVolume attaches (lines 538-551).
DiskDevice(volName, poolName, contentType) ==
    [source |-> volName, pool |-> poolName, type |-> "disk",
     path |-> IF contentType = "filesystem" THEN <<driverFileSystemMountPath, volName>> ELSE <<>>]

\* A comparison that takes the device's source for its pool.
DeviceMatchesSwapped(dev, volName, poolName) ==
    ~(dev.type # "disk" \/ dev.source # poolName \/ dev.pool # volName)

\* Does the existing device match the expected parameters (line 531)?
DeviceMatches(dev, volName, poolName) ==
    ~(dev.type # "disk" \/ dev.source # volName \/ dev.pool # poolName)

\* Fetch the instance and look for the device (lines 523-536).
ControllerPublishVolumeGetInstance(p) ==
    /\ h[p].pc = "pv_getinst"
    /\ UNCHANGED <<Remote, Config, calls>>
    /\ \E e \in {Nil} \cup RemoteFailures :
        LET hp == h[p]
            n == hp.req.nodeId
            devices == instances[n]
        IN  IF e # Nil THEN Fail(p, hp, e)
            ELSE IF ~InstanceExists(n) THEN Fail(p, hp, StatusError(404))
            ELSE IF hp.vol \in DOMAIN devices
                 THEN IF DeviceMatches(devices[hp.vol], hp.vol, hp.pool)
                      THEN Return(p, hp, "OK", [kind |-> "ControllerPublishVolume"])
                      ELSE Return(p, hp, "AlreadyExists", NoResp)
            ELSE Continue(p, [hp EXCEPT !.pc = "pv_update", !.etag = devices])

\* An UpdateInstance that the server applies without comparing the ETag.
ControllerPublishVolumeUpdateNoETag(p) ==
    /\ h[p].pc = "pv_update"
    /\ UNCHANGED <<volumes, snapshots, Config, calls>>
    /\ \E e \in {Nil} \cup RemoteFailures :
        LET hp == [h[p] EXCEPT !.muts = @ + 1]
            n == hp.req.nodeId
            err == IF e # Nil THEN e
                   ELSE IF ~InstanceExists(n) THEN StatusError(404)
                   ELSE Nil
        IN  IF err # Nil
            THEN Fail(p, hp, err) /\ UNCHANGED instances
            ELSE /\ Return(p, hp, "OK", [kind |-> "ControllerPublishVolume"])
                 /\ instances' = [instances EXCEPT ![n] =
                        [d \in DOMAIN instances[n] \cup {hp.vol} |->
                            IF d = hp.vol THEN DiskDevice(hp.vol, hp.pool, hp.ctype)
                            ELSE instances[n][d]]]

\* A ControllerPublishVolume whose update replaces the instance's devices by the one
\* device it sends.
ControllerPublishVolumeUpdateReplace(p) ==
    /\ h[p].pc = "pv_update"
    /\ UNCHANGED <<volumes, snapshots, Config, calls>>
    /\ \E e \in {Nil} \cup RemoteFailures :
        LET hp == [h[p] EXCEPT !.muts = @ + 1]
            n == hp.req.nodeId
            err == IF e # Nil THEN e
                   ELSE IF ~InstanceExists(n) THEN StatusError(404)
                   ELSE IF instances[n] # hp.etag THEN StatusError(412)
                   ELSE Nil
        IN  IF err # Nil
            THEN Fail(p, hp, err) /\ UNCHANGED instances
            ELSE /\ Return(p, hp, "OK", [kind |-> "ControllerPublishVolume"])
                 /\ instances' = [instances EXCEPT ![n] =
                        [d \in {hp.vol} |-> DiskDevice(hp.vol, hp.pool, hp.ctype)]]

\* client.UpdateInstance with the instance's ETag (lines 553-558).
ControllerPublishVolumeUpdate(p) ==
    /\ h[p].pc = "pv_update"
    /\ UNCHANGED <<volumes, snapshots, Config, calls>>
    /\ \E e \in {Nil} \cup RemoteFailures :
        LET hp == [h[p] EXCEPT !.muts = @ + 1]
            n == hp.req.nodeId
            err == IF e # Nil THEN e
                   ELSE IF ~InstanceExists(n) THEN StatusError(404)
                   ELSE IF instances[n] # hp.etag THEN StatusError(412)
                   ELSE Nil
        IN  IF err # Nil
            THEN Fail(p, hp, err) /\ UNCHANGED instances
            ELSE /\ Return(p, hp, "OK", [kind |-> "ControllerPublishVolume"])
                 /\ instances' = [instances EXCEPT ![n] =
                        [d \in DOMAIN instances[n] \cup {hp.vol} |->
                            IF d = hp.vol THEN DiskDevice(hp.vol, hp.pool, hp.ctype)
                            ELSE instances[n][d]]]

\* A ControllerUnpublishVolume that locks the bare volume name.
ControllerUnpublishVolumeLockVolName(r) == splitVolumeID(r.volumeId).volName

\* The name ControllerUnpublishVolume locks: the volume ID of the request (line 574).
ControllerUnpublishVolumeLockName(r) == r.volumeId

\* Session accessor and identifier decoding (lines 564-572).
ControllerUnpublishVolumeBegin(p, r) ==
    /\ CanStart(p)
    /\ r.rpc = "ControllerUnpublishVolume"
    /\ calls' = calls + 1
    /\ UNCHANGED <<Remote, volumeNamePrefix>>
    /\ \E e \in DevLXDClientErrors :
        /\ DevLXDClient(e)
        /\ LET hp == Fresh(r)
               sid == splitVolumeID(r.volumeId)
           IN  IF e # Nil THEN Fail(p, hp, e)
               ELSE IF ~sid.ok THEN Return(p, hp, "InvalidArgument", NoResp)
               ELSE Continue(p, [hp EXCEPT !.pc = "uv_lock", !.vol = sid.volName,
                                           !.id = ControllerUnpublishVolumeLockName(r)])

\* unlock := locking.TryLock(req.VolumeId) (lines 574-579).
ControllerUnpublishVolumeTryLock(p) ==
    /\ h[p].pc = "uv_lock"
    /\ UNCHANGED <<Remote, Config, calls>>
    /\ IF TryLock(h[p].id)
       THEN /\ locks' = locks \cup {h[p].id}
            /\ h' = [h EXCEPT ![p] = [h[p] EXCEPT !.pc = "uv_update", !.locked = TRUE]]
            /\ UNCHANGED last
       ELSE Return(p, h[p], "Aborted", NoResp)

\* A ControllerUnpublishVolume that reports Not Found like any other error.
ControllerUnpublishVolumeUpdateStrict(p) ==
    /\ h[p].pc = "uv_update"
    /\ UNCHANGED <<volumes, snapshots, Config, calls>>
    /\ \E e \in {Nil} \cup RemoteFailures :
        LET hp == [h[p] EXCEPT !.muts = @ + 1]
            n == hp.req.nodeId
            err == IF e # Nil THEN e
                   ELSE IF ~InstanceExists(n) THEN StatusError(404)
                   ELSE IF hp.vol \notin DOMAIN instances[n] THEN StatusError(404)
                   ELSE Nil
        IN  /\ IF err # Nil
               THEN Fail(p, hp, err)
               ELSE Return(p, hp, "OK", [kind |-> "ControllerUnpublishVolume"])
            /\ IF err = Nil
               THEN instances' = [instances EXCEPT ![n] =
                        [d \in DOMAIN instances[n] \ {hp.vol} |-> instances[n][d]]]
               ELSE UNCHANGED instances

\* client.UpdateInstance removing the device, no ETag; Not Found counts as success
\* (lines 581-594).
ControllerUnpublishVolumeUpdate(p) ==
    /\ h[p].pc = "uv_update"
    /\ UNCHANGED <<volumes, snapshots, Config, calls>>
    /\ \E e \in {Nil} \cup RemoteFailures :
        LET hp == [h[p] EXCEPT !.muts = @ + 1]
            n == hp.req.nodeId
            err == IF e # Nil THEN e
                   ELSE IF ~InstanceExists(n) THEN StatusError(404)
                   ELSE IF hp.vol \notin DOMAIN instances[n] THEN StatusError(404)
                   ELSE Nil
        IN  /\ IF err # Nil /\ ~StatusErrorCheck(err, 404)
               THEN Fail(p, hp, err)
               ELSE Return(p, [hp EXCEPT !.err = err], "OK",
                           [kind |-> "ControllerUnpublishVolume"])
            /\ IF err = Nil
               THEN instances' = [instances EXCEPT ![n] =
                        [d \in DOMAIN instances[n] \ {hp.vol} |-> instances[n][d]]]
               ELSE UNCHANGED instances

---------------------------------------------------------------------------
(* CreateSnapshot / DeleteSnapshot *)

\* The snapshot name: the part before the first dash, a dash, and the rest of the
\* name with its dashes removed (lines 385-393).
DeriveSnapshotName(name) ==
    LET c == Cut(name, "-")
    IN  c.before \o <<"-">> \o RemoveAll(c.after, "-")

\* splitSnapshotID: "<volumeID>/<snapshotName>" -> [ok, clusterMember, poolName,
\* volName, snapshotName].
splitSnapshotID(snapshotID) ==
    LET hasMember == Contains(snapshotID, ":")
        member    == IF hasMember THEN Cut(snapshotID, ":").before ELSE <<>>
        rest      == IF hasMember THEN Cut(snapshotID, ":").after ELSE snapshotID
        parts     == Split(rest, "/")
    IN  IF rest = <<>> \/ Len(parts) # 3
        THEN [ok |-> FALSE, clusterMember |-> <<>>, poolName |-> <<>>, volName |-> <<>>,
              snapshotName |-> <<>>]
        ELSE [ok |-> TRUE, clusterMember |-> member, poolName |-> parts[1],
              volName |-> parts[2], snapshotName |-> parts[3]]

SnapKey(member, poolName, volName, snapshotName) == <<member, poolName, volName, snapshotName>>

\* Session accessor, validation, snapshot name and ID, target binding (lines 372-404).
CreateSnapshotBegin(p, r) ==
    /\ CanStart(p)
    /\ r.rpc = "CreateSnapshot"
    /\ calls' = calls + 1
    /\ UNCHANGED <<Remote, volumeNamePrefix>>
    /\ \E e \in DevLXDClientErrors :
        /\ DevLXDClient(e)
        /\ LET hp == Fresh(r)
               snapshotName == DeriveSnapshotName(r.name)
               snapshotID == r.sourceVolumeId \o <<"/">> \o snapshotName
               sid == splitVolumeID(r.sourceVolumeId)
           IN  IF e # Nil THEN Fail(p, hp, e)
               ELSE IF r.name = <<>> THEN Return(p, hp, "InvalidArgument", NoResp)
               ELSE IF r.sourceVolumeId = <<>> THEN Return(p, hp, "InvalidArgument", NoResp)
               ELSE IF ~Cut(r.name, "-").found THEN Return(p, hp, "InvalidArgument", NoResp)
               ELSE IF ~sid.ok THEN Return(p, hp, "InvalidArgument", NoResp)
               ELSE Continue(p, [hp EXCEPT !.pc = "cs_lock", !.target = sid.clusterMember,
                                           !.member = IF sid.clusterMember # <<>> /\ isClustered
                                                      THEN sid.clusterMember ELSE <<>>,
                                           !.pool = sid.poolName, !.vol = sid.volName,
                                           !.src = [target |-> <<>>, pool |-> <<>>,
                                                    vol |-> snapshotName],
                                           !.id = snapshotID])

\* A CreateSnapshot that goes on whether or not TryLock gave it the lock.
CreateSnapshotTryLockUnchecked(p) ==
    /\ h[p].pc = "cs_lock"
    /\ UNCHANGED <<Remote, Config, calls, last>>
    /\ locks' = locks \cup {h[p].id}
    /\ h' = [h EXCEPT ![p] = [h[p] EXCEPT !.pc = "cs_get", !.locked = TRUE]]

\* unlock := locking.TryLock(snapshotID) (lines 406-411).
CreateSnapshotTryLock(p) ==
    /\ h[p].pc = "cs_lock"
    /\ UNCHANGED <<Remote, Config, calls>>
    /\ IF TryLock(h[p].id)
       THEN /\ locks' = locks \cup {h[p].id}
            /\ h' = [h EXCEPT ![p] = [h[p] EXCEPT !.pc = "cs_get", !.locked = TRUE]]
            /\ UNCHANGED last
       ELSE Return(p, h[p], "Aborted", NoResp)

CreateSnapshotResponse(hp) ==
    [kind |-> "CreateSnapshot", snapshotId |-> hp.id,
     sourceVolumeId |-> hp.req.sourceVolumeId, readyToUse |-> TRUE]

\* A CreateSnapshot that sends the create request even for an existing snapshot.
CreateSnapshotGetIgnored(p) ==
    /\ h[p].pc = "cs_get"
    /\ UNCHANGED <<Remote, Config, calls>>
    /\ \E e \in {Nil} \cup RemoteFailures :
        LET hp == h[p]
        IN  IF e # Nil THEN Fail(p, hp, e)
            ELSE Continue(p, [hp EXCEPT !.pc = "cs_create"])

\* Look the snapshot up; an existing one is the answer (lines 413-417, 436-443).
CreateSnapshotGet(p) ==
    /\ h[p].pc = "cs_get"
    /\ UNCHANGED <<Remote, Config, calls>>
    /\ \E e \in {Nil} \cup RemoteFailures :
        LET hp == h[p]
        IN  IF e # Nil THEN Fail(p, hp, e)
            ELSE IF SnapKey(hp.member, hp.pool, hp.vol, hp.src.vol) \in snapshots
                 THEN Return(p, hp, "OK", CreateSnapshotResponse(hp))
            ELSE Continue(p, [hp EXCEPT !.pc = "cs_create"])

\* client.CreateStoragePoolVolumeSnapshot: the request is sent (lines 419-426).
CreateSnapshotRequest(p) ==
    /\ h[p].pc = "cs_create"
    /\ UNCHANGED <<Remote, Config, calls>>
    /\ \E e \in {Nil} \cup RemoteFailures :
        LET hp == [h[p] EXCEPT !.muts = @ + 1]
        IN  IF e # Nil THEN Fail(p, hp, e)
            ELSE Continue(p, [hp EXCEPT !.pc = "cs_wait"])

\* op.WaitContext(ctx), then the response (lines 427-443).
CreateSnapshotWait(p) ==
    /\ h[p].pc = "cs_wait"
    /\ UNCHANGED <<volumes, instances, Config, calls>>
    /\ LET hp == h[p]
           k == SnapKey(hp.member, hp.pool, hp.vol, hp.src.vol)
           possible == VolumeExists(VolKey(hp.member, hp.pool, hp.vol)) /\ k \notin snapshots
       IN  \E e \in {Nil} \cup WaitFailures :
            IF e = Nil
            THEN IF ~VolumeExists(VolKey(hp.member, hp.pool, hp.vol))
                 THEN Fail(p, hp, StatusError(404))
                      /\ UNCHANGED snapshots
                 ELSE IF k \in snapshots
                 THEN Fail(p, hp, StatusError(409))
                      /\ UNCHANGED snapshots
                 ELSE Return(p, hp, "OK", CreateSnapshotResponse(hp))
                      /\ snapshots' = snapshots \cup {k}
            ELSE /\ Fail(p, hp, e)
                 /\ \/ UNCHANGED snapshots
                    \/ e = CtxDeadline /\ possible /\ snapshots' = snapshots \cup {k}

\* Session accessor, identifier decoding, target binding (lines 449-462).
DeleteSnapshotBegin(p, r) ==
    /\ CanStart(p)
    /\ r.rpc = "DeleteSnapshot"
    /\ calls' = calls + 1
    /\ UNCHANGED <<Remote, volumeNamePrefix>>
    /\ \E e \in DevLXDClientErrors :
        /\ DevLXDClient(e)
        /\ LET hp == Fresh(r)
               sid == splitSnapshotID(r.snapshotId)
           IN  IF e # Nil THEN Fail(p, hp, e)
               ELSE IF ~sid.ok THEN Return(p, hp, "InvalidArgument", NoResp)
               ELSE Continue(p, [hp EXCEPT !.pc = "ds_lock", !.target = sid.clusterMember,
                                           !.member = IF sid.clusterMember # <<>> /\ isClustered
                                                      THEN sid.clusterMember ELSE <<>>,
                                           !.pool = sid.poolName, !.vol = sid.volName,
                                           !.src = [target |-> <<>>, pool |-> <<>>,
                                                    vol |-> sid.snapshotName],
                                           !.id = r.snapshotId])

\* unlock := locking.TryLock(req.SnapshotId) (lines 464-469).
DeleteSnapshotTryLock(p) ==
    /\ h[p].pc = "ds_lock"
    /\ UNCHANGED <<Remote, Config, calls>>
    /\ IF TryLock(h[p].id)
       THEN /\ locks' = locks \cup {h[p].id}
            /\ h' = [h EXCEPT ![p] = [h[p] EXCEPT !.pc = "ds_delete", !.locked = TRUE]]
            /\ UNCHANGED last
       ELSE Return(p, h[p], "Aborted", NoResp)

\* client.DeleteStoragePoolVolumeSnapshot: the request is sent (line 471).
DeleteSnapshotRequest(p) ==
    /\ h[p].pc = "ds_delete"
    /\ UNCHANGED <<Remote, Config, calls>>
    /\ \E e \in {Nil} \cup RemoteFailures :
        LET hp == [h[p] EXCEPT !.muts = @ + 1]
        IN  IF e # Nil /\ ~StatusErrorCheck(e, 404) THEN Fail(p, hp, e)
            ELSE Continue(p, [hp EXCEPT !.pc = "ds_wait"])

\* op.WaitContext(ctx); Not Found counts as success (lines 472-480).
DeleteSnapshotWait(p) ==
    /\ h[p].pc = "ds_wait"
    /\ UNCHANGED <<volumes, instances, Config, calls>>
    /\ LET hp == h[p]
           k == SnapKey(hp.member, hp.pool, hp.vol, hp.src.vol)
       IN  \E e \in {Nil} \cup WaitFailures :
            LET err == IF e = Nil /\ k \notin snapshots THEN StatusError(404) ELSE e
            IN  /\ IF err # Nil /\ ~StatusErrorCheck(err, 404)
                   THEN Fail(p, hp, err)
                   ELSE Return(p, [hp EXCEPT !.err = err], "OK", [kind |-> "DeleteSnapshot"])
                /\ IF e = Nil THEN snapshots' = snapshots \ {k}
                   ELSE \/ UNCHANGED snapshots
                        \/ e = CtxDeadline /\ k \in snapshots /\ snapshots' = snapshots \ {k}

---------------------------------------------------------------------------
(* The requests the orchestrator issues, and the server it finds. *)

NameA == <<"x", "-", "a">>
NameB == <<"x", "-", "b">>
PoolP == <<"p">>
MemberM == <<"m">>
Node1 == "n1"
SnapName == <<"s", "-", "a">>

NoContentSource == [kind |-> "none", id |-> <<>>]

NewCreateVolumeRequest(name, caps, bytes, preferred) ==
    [rpc |-> "CreateVolume", name |-> name, caps |-> caps, bytes |-> bytes,
     params |-> [k \in {ParameterStoragePool} |-> PoolP], source |-> NoContentSource,
     preferred |-> preferred]

\* The ID CreateVolume gives the volume it creates for `name` on member `target`.
IdOf(target, name) == getVolumeID(target, PoolP, DeriveName(name, volumeNamePrefix))

SnapshotIdOf(name) == IdOf(<<>>, name) \o <<"/">> \o DeriveSnapshotName(SnapName)

BadVolumeId == PoolP

\* The server at start: no custom volume, or the volume of NameA left by an earlier
\* run of the driver.
InitialVolumes ==
    {<<>>} \cup
    {[k \in {VolKey(<<>>, PoolP, DeriveName(NameA, <<>>))} |->
        [size |-> FormatInt(b), contentType |-> c]] :
            b \in 1..MaxBytes, c \in {"filesystem", "block"}}

\* The driver after construction, facing a server with the volumes V, clustered or not.
InitFrom(V, C, P) ==
    /\ locks = {}
    /\ volumes \in V
    /\ instances = [n \in {Node1} |-> <<>>]
    /\ snapshots = {}
    /\ isClustered \in C
    /\ volumeNamePrefix \in P
    /\ hasDevLXDTokenChanged = FALSE
    /\ SessionReady
    /\ node = NoMounts
    /\ h = [p \in Procs |-> Idle]
    /\ last = [req |-> NoReq, code |-> "none", resp |-> NoResp, muts |-> 0,
               id |-> <<>>, locked |-> FALSE, err |-> Nil, refreshed |-> FALSE]
    /\ calls = 0

\* A driver without a configured volume name prefix.
InitWith(V, C) == InitFrom(V, C, {<<>>})

Init == InitWith(InitialVolumes, BOOLEAN)

---------------------------------------------------------------------------
(* Volume life cycle: CreateVolume, DeleteVolume and ControllerExpandVolume served *)
(* by two goroutines.                                                              *)

VolumeCreateRequests ==
    {NewCreateVolumeRequest(NameA, <<c>>, b, t) :
        c \in {"mount"}, b \in {0, 1}, t \in {<<>>, <<MemberM>>}}

VolumeDeleteRequests ==
    {[rpc |-> "DeleteVolume", volumeId |-> v] : v \in {IdOf(<<>>, NameA), BadVolumeId}}

VolumeExpandRequests ==
    {[rpc |-> "ControllerExpandVolume", volumeId |-> IdOf(<<>>, NameA),
      cap |-> "mount", bytes |-> b] : b \in 1..MaxBytes}

Next ==
    \E p \in {1, 2} :
        \/ \E r \in VolumeCreateRequests : CreateVolumeBegin(p, r)
        \/ CreateVolumeResolvePool(p)
        \/ CreateVolumeTryLock(p)
        \/ CreateVolumeGetVolume(p)
        \/ CreateVolumeRequest(p)
        \/ CreateVolumeWait(p)
        \/ \E r \in VolumeDeleteRequests : DeleteVolumeBegin(p, r)
        \/ DeleteVolumeTryLock(p)
        \/ DeleteVolumeRequest(p)
        \/ DeleteVolumeWait(p)
        \/ \E r \in VolumeExpandRequests : ControllerExpandVolumeBegin(p, r)
        \/ ControllerExpandVolumeTryLock(p)
        \/ ControllerExpandVolumeGet(p)
        \/ ControllerExpandVolumeRequest(p)
        \/ ControllerExpandVolumeWait(p)

Spec == Init /\ [][Next]_vars

---------------------------------------------------------------------------
(* Locking: every handler that takes a lock, served by three goroutines, on two *)
(* volumes and one snapshot.                                                    *)

LockCreateRequests == {NewCreateVolumeRequest(NameA, <<"mount">>, 1, <<>>)}

LockDeleteRequests ==
    {[rpc |-> "DeleteVolume", volumeId |-> IdOf(<<>>, n)] : n \in {NameA, NameB}}

LockExpandRequests ==
    {[rpc |-> "ControllerExpandVolume", volumeId |-> IdOf(<<>>, NameA), cap |-> "mount",
      bytes |-> MaxBytes]}

LockPublishRequests ==
    {[rpc |-> "ControllerPublishVolume", volumeId |-> IdOf(<<>>, NameA), nodeId |-> Node1,
      cap |-> "mount"]}

LockUnpublishRequests ==
    {[rpc |-> "ControllerUnpublishVolume", volumeId |-> IdOf(<<>>, NameA), nodeId |-> Node1]}

LockCreateSnapshotRequests ==
    {[rpc |-> "CreateSnapshot", name |-> SnapName, sourceVolumeId |-> IdOf(<<>>, NameA)]}

LockDeleteSnapshotRequests ==
    {[rpc |-> "DeleteSnapshot", snapshotId |-> SnapshotIdOf(NameA)]}

NextLock ==
    \E p \in Procs :
        \/ \E r \in LockCreateRequests : CreateVolumeBegin(p, r)
        \/ CreateVolumeResolvePool(p)
        \/ CreateVolumeTryLock(p)
        \/ CreateVolumeGetVolume(p)
        \/ CreateVolumeRequest(p)
        \/ CreateVolumeWait(p)
        \/ \E r \in LockDeleteRequests : DeleteVolumeBegin(p, r)
        \/ DeleteVolumeTryLock(p)
        \/ DeleteVolumeRequest(p)
        \/ DeleteVolumeWait(p)
        \/ \E r \in LockExpandRequests : ControllerExpandVolumeBegin(p, r)
        \/ ControllerExpandVolumeTryLock(p)
        \/ ControllerExpandVolumeGet(p)
        \/ ControllerExpandVolumeRequest(p)
        \/ ControllerExpandVolumeWait(p)
        \/ \E r \in LockPublishRequests : ControllerPublishVolumeBegin(p, r)
        \/ ControllerPublishVolumeTryLock(p)
        \/ ControllerPublishVolumeGetVolume(p)
        \/ ControllerPublishVolumeGetInstance(p)
        \/ ControllerPublishVolumeUpdate(p)
        \/ \E r \in LockUnpublishRequests : ControllerUnpublishVolumeBegin(p, r)
        \/ ControllerUnpublishVolumeTryLock(p)
        \/ ControllerUnpublishVolumeUpdate(p)
        \/ \E r \in LockCreateSnapshotRequests : CreateSnapshotBegin(p, r)
        \/ CreateSnapshotTryLock(p)
        \/ CreateSnapshotGet(p)
        \/ CreateSnapshotRequest(p)
        \/ CreateSnapshotWait(p)
        \/ \E r \in LockDeleteSnapshotRequests : DeleteSnapshotBegin(p, r)
        \/ DeleteSnapshotTryLock(p)
        \/ DeleteSnapshotRequest(p)
        \/ DeleteSnapshotWait(p)

\* A standalone server that holds the volume of NameA.
InitLock ==
    InitWith({[k \in {VolKey(<<>>, PoolP, DeriveName(NameA, <<>>))} |->
                  [size |-> FormatInt(1), contentType |-> "filesystem"]]}, {FALSE})

SpecLock == InitLock /\ [][NextLock]_vars

---------------------------------------------------------------------------
(* Attachment: ControllerPublishVolume and ControllerUnpublishVolume served by *)
(* two goroutines, with DeleteVolume to take the volume away.                  *)

AttachPublishRequests ==
    {[rpc |-> "ControllerPublishVolume", volumeId |-> v, nodeId |-> Node1, cap |-> c] :
        v \in {IdOf(<<>>, NameA), IdOf(<<>>, NameB)}, c \in {"mount", "block"}}
    \cup {[rpc |-> "ControllerPublishVolume", volumeId |-> BadVolumeId, nodeId |-> Node1,
           cap |-> "mount"],
          [rpc |-> "ControllerPublishVolume", volumeId |-> IdOf(<<>>, NameA), nodeId |-> Node1,
           cap |-> "none"]}

\* The same volume name in the remote pool.
PoolR == <<"r">>

AttachOtherPoolId == getVolumeID(<<>>, PoolR, DeriveName(NameA, <<>>))

AttachOtherPoolRequests ==
    {[rpc |-> "ControllerPublishVolume", volumeId |-> AttachOtherPoolId, nodeId |-> Node1,
      cap |-> "mount"]}

AttachUnpublishRequests ==
    {[rpc |-> "ControllerUnpublishVolume", volumeId |-> v, nodeId |-> Node1] :
        v \in {IdOf(<<>>, NameA), BadVolumeId}}

AttachDeleteRequests == {[rpc |-> "DeleteVolume", volumeId |-> IdOf(<<>>, NameA)]}

NextAttach ==
    \E p \in {1, 2} :
        \/ \E r \in AttachPublishRequests \cup AttachOtherPoolRequests :
                ControllerPublishVolumeBegin(p, r)
        \/ ControllerPublishVolumeTryLock(p)
        \/ ControllerPublishVolumeGetVolume(p)
        \/ ControllerPublishVolumeGetInstance(p)
        \/ ControllerPublishVolumeUpdate(p)
        \/ \E r \in AttachUnpublishRequests : ControllerUnpublishVolumeBegin(p, r)
        \/ ControllerUnpublishVolumeTryLock(p)
        \/ ControllerUnpublishVolumeUpdate(p)
        \/ \E r \in AttachDeleteRequests : DeleteVolumeBegin(p, r)
        \/ DeleteVolumeTryLock(p)
        \/ DeleteVolumeRequest(p)
        \/ DeleteVolumeWait(p)

\* The server at start, as in Init, or holding the volume of NameA in both pools.
InitAttach ==
    InitWith(InitialVolumes \cup
             {[k \in {VolKey(<<>>, PoolP, DeriveName(NameA, <<>>)),
                      VolKey(<<>>, PoolR, DeriveName(NameA, <<>>))} |->
                  [size |-> FormatInt(1), contentType |-> "filesystem"]]},
             BOOLEAN)

SpecAttach == InitAttach /\ [][NextAttach]_vars

---------------------------------------------------------------------------
(* Attach race: two volumes of one pool attached to and detached from one   *)
(* instance by two goroutines.                                              *)

RacePublishRequests ==
    {[rpc |-> "ControllerPublishVolume", volumeId |-> IdOf(<<>>, n), nodeId |-> Node1,
      cap |-> "mount"] : n \in {NameA, NameB}}

RaceUnpublishRequests ==
    {[rpc |-> "ControllerUnpublishVolume", volumeId |-> IdOf(<<>>, n), nodeId |-> Node1] :
        n \in {NameA, NameB}}

\* The server holds both volumes.
RaceInitialVolumes ==
    {[k \in {VolKey(<<>>, PoolP, DeriveName(n, <<>>)) : n \in {NameA, NameB}} |->
        [size |-> FormatInt(1), contentType |-> "filesystem"]]}

InitRace == InitWith(RaceInitialVolumes, {FALSE})

NextRace ==
    \E p \in {1, 2} :
        \/ \E r \in RacePublishRequests : ControllerPublishVolumeBegin(p, r)
        \/ ControllerPublishVolumeTryLock(p)
        \/ ControllerPublishVolumeGetVolume(p)
        \/ ControllerPublishVolumeGetInstance(p)
        \/ ControllerPublishVolumeUpdate(p)
        \/ \E r \in RaceUnpublishRequests : ControllerUnpublishVolumeBegin(p, r)
        \/ ControllerUnpublishVolumeTryLock(p)
        \/ ControllerUnpublishVolumeUpdate(p)

SpecRace == InitRace /\ [][NextRace]_vars

---------------------------------------------------------------------------
(* Attach frame: two volumes attached to and detached from two instances   *)
(* that each hold a device of their own.                                   *)

Node2 == "n2"

RootDevice == <<"r", "o", "o", "t">>

FramePublishRequests ==
    {[rpc |-> "ControllerPublishVolume", volumeId |-> IdOf(<<>>, v), nodeId |-> n,
      cap |-> "mount"] : v \in {NameA, NameB}, n \in {Node1, Node2}}

FrameUnpublishRequests ==
    {[rpc |-> "ControllerUnpublishVolume", volumeId |-> IdOf(<<>>, v), nodeId |-> n] :
        v \in {NameA, NameB}, n \in {Node1, Node2}}

InitFrame ==
    /\ locks = {}
    /\ volumes \in RaceInitialVolumes
    /\ instances = [n \in {Node1, Node2} |->
                      [d \in {RootDevice} |->
                          [source |-> <<>>, pool |-> <<"d">>, type |-> "disk",
                           path |-> <<"/">>]]]
    /\ snapshots = {}
    /\ isClustered = FALSE
    /\ volumeNamePrefix = <<>>
    /\ hasDevLXDTokenChanged = FALSE
    /\ SessionReady
    /\ node = NoMounts
    /\ h = [p \in Procs |-> Idle]
    /\ last = [req |-> NoReq, code |-> "none", resp |-> NoResp, muts |-> 0,
               id |-> <<>>, locked |-> FALSE, err |-> Nil, refreshed |-> FALSE]
    /\ calls = 0

NextFrame ==
    \E p \in {1, 2} :
        \/ \E r \in FramePublishRequests : ControllerPublishVolumeBegin(p, r)
        \/ ControllerPublishVolumeTryLock(p)
        \/ ControllerPublishVolumeGetVolume(p)
        \/ ControllerPublishVolumeGetInstance(p)
        \/ ControllerPublishVolumeUpdate(p)
        \/ \E r \in FrameUnpublishRequests : ControllerUnpublishVolumeBegin(p, r)
        \/ ControllerUnpublishVolumeTryLock(p)
        \/ ControllerUnpublishVolumeUpdate(p)

SpecFrame == InitFrame /\ [][NextFrame]_vars

---------------------------------------------------------------------------
(* Validation: one goroutine serving well-formed and malformed requests of   *)
(* every handler, with or without a configured name prefix, while the token  *)
(* file may change between calls.                                            *)

NameNoDash == <<"x", "a">>

ValidateCapabilities == {<<"mount">>, <<"block">>, <<"mount", "block">>, <<"none">>, <<>>}

\* Storage-class parameter maps: the pool alone, nothing, an empty pool, the pool
\* with the internal driver key, with an unknown key, and with a CSI key.
ValidateParameters ==
    {[k \in {ParameterStoragePool} |-> PoolP],
     [k \in {ParameterPVCName} |-> <<"c">>],
     [k \in {ParameterStoragePool} |-> <<>>],
     [k \in {ParameterStoragePool, ParameterStorageDriver} |->
        IF k = ParameterStoragePool THEN PoolP ELSE <<"d">>],
     [k \in {ParameterStoragePool, "foo"} |->
        IF k = ParameterStoragePool THEN PoolP ELSE <<"b">>],
     [k \in {ParameterStoragePool, ParameterPVCName} |->
        IF k = ParameterStoragePool THEN PoolP ELSE <<"c">>]}

ValidateSources ==
    {NoContentSource,
     [kind |-> "snapshot", id |-> <<"p", "/", "x", "-", "a", "/", "s", "-", "a">>],
     [kind |-> "volume", id |-> <<"p", "/", "x", "-", "a">>]}

\* A well-formed request for NameA, and the requests that differ from it in the
\* name, the capabilities, the capacity, the parameters or the content source.
ValidateCreateRequests ==
    LET base == NewCreateVolumeRequest(NameA, <<"mount">>, 1, <<>>)
    IN  {[base EXCEPT !.name = n] : n \in {NameA, NameB, NameNoDash}}
        \cup {[base EXCEPT !.caps = c] : c \in ValidateCapabilities}
        \cup {[base EXCEPT !.bytes = b] : b \in {0 - 1, 0}}
        \cup {[base EXCEPT !.params = q] : q \in ValidateParameters}
        \cup {[base EXCEPT !.name = NameB, !.source = src] : src \in ValidateSources}
        \cup {[base EXCEPT !.bytes = 0, !.caps = <<"none">>, !.name = NameNoDash]}

\* Volume IDs: the two of NameA, and strings that are not the encoding of a volume.
ValidateVolumeIds ==
    {IdOf(<<>>, NameA), BadVolumeId, <<>>, <<"/">>, <<"p", "/", "x", "/", "x">>}

ValidateDeleteRequests ==
    {[rpc |-> "DeleteVolume", volumeId |-> v] : v \in ValidateVolumeIds}

ValidateExpandRequests ==
    {[rpc |-> "ControllerExpandVolume", volumeId |-> v, cap |-> c, bytes |-> MaxBytes] :
        v \in {IdOf(<<>>, NameA), BadVolumeId}, c \in {"mount", "none"}}

ValidatePublishRequests ==
    {[rpc |-> "ControllerPublishVolume", volumeId |-> v, nodeId |-> Node1, cap |-> c] :
        v \in {IdOf(<<>>, NameA), BadVolumeId}, c \in {"mount", "none"}}

\* A node the server has no instance for.
NodeGone == "n2"

ValidateUnpublishRequests ==
    {[rpc |-> "ControllerUnpublishVolume", volumeId |-> v, nodeId |-> Node1] :
        v \in {IdOf(<<>>, NameA), BadVolumeId}}
    \cup {[rpc |-> "ControllerUnpublishVolume", volumeId |-> IdOf(<<>>, NameA),
           nodeId |-> NodeGone]}

ValidateCreateSnapshotRequests ==
    {[rpc |-> "CreateSnapshot", name |-> n, sourceVolumeId |-> v] :
        n \in {SnapName, <<>>, <<"s">>}, v \in {IdOf(<<>>, NameA), BadVolumeId}}

ValidateDeleteSnapshotRequests ==
    {[rpc |-> "DeleteSnapshot", snapshotId |-> v] :
        v \in {SnapshotIdOf(NameA), IdOf(<<>>, NameA)}}

NextValidate ==
    \/ handleTokenFileChange
    \/ \E p \in {1} :
        \/ \E r \in ValidateCreateRequests : CreateVolumeBegin(p, r)
        \/ CreateVolumeResolvePool(p)
        \/ CreateVolumeTryLock(p)
        \/ CreateVolumeGetVolume(p)
        \/ CreateVolumeGetSource(p)
        \/ CreateVolumeRequest(p)
        \/ CreateVolumeWait(p)
        \/ \E r \in ValidateDeleteRequests : DeleteVolumeBegin(p, r)
        \/ DeleteVolumeTryLock(p)
        \/ DeleteVolumeRequest(p)
        \/ DeleteVolumeWait(p)
        \/ \E r \in ValidateExpandRequests : ControllerExpandVolumeBegin(p, r)
        \/ ControllerExpandVolumeTryLock(p)
        \/ ControllerExpandVolumeGet(p)
        \/ ControllerExpandVolumeRequest(p)
        \/ ControllerExpandVolumeWait(p)
        \/ \E r \in ValidatePublishRequests : ControllerPublishVolumeBegin(p, r)
        \/ ControllerPublishVolumeTryLock(p)
        \/ ControllerPublishVolumeGetVolume(p)
        \/ ControllerPublishVolumeGetInstance(p)
        \/ ControllerPublishVolumeUpdate(p)
        \/ \E r \in ValidateUnpublishRequests : ControllerUnpublishVolumeBegin(p, r)
        \/ ControllerUnpublishVolumeTryLock(p)
        \/ ControllerUnpublishVolumeUpdate(p)
        \/ \E r \in ValidateCreateSnapshotRequests : CreateSnapshotBegin(p, r)
        \/ CreateSnapshotTryLock(p)
        \/ CreateSnapshotGet(p)
        \/ CreateSnapshotRequest(p)
        \/ CreateSnapshotWait(p)
        \/ \E r \in ValidateDeleteSnapshotRequests : DeleteSnapshotBegin(p, r)
        \/ DeleteSnapshotTryLock(p)
        \/ DeleteSnapshotRequest(p)
        \/ DeleteSnapshotWait(p)

\* A standalone server that holds the volume of NameA, the driver with the prefix
\* "k" configured or with none.
InitValidate ==
    InitFrom({[k \in {VolKey(<<>>, PoolP, DeriveName(NameA, <<>>))} |->
                  [size |-> FormatInt(1), contentType |-> "filesystem"]]},
             {FALSE}, {<<>>, <<"k">>})

SpecValidate == InitValidate /\ [][NextValidate]_vars

---------------------------------------------------------------------------
(* The identifier codec on its own: getVolumeID applied to every triple of   *)
(* short strings, and splitVolumeID applied to the result.                   *)

\* Length of the longest cluster member, pool and volume name.
MaxIdLen == 2

IdAlphabet == {"a", "/", ":"}

\* All strings over IdAlphabet of length at most n.
IdStrings(n) == UNION {[1..m -> IdAlphabet] : m \in 0..n}

\* Nothing has been served; getVolumeID is about to be called on some triple.
InitCodec ==
    /\ locks = {}
    /\ volumes = <<>>
    /\ instances = [n \in {Node1} |-> <<>>]
    /\ snapshots = {}
    /\ isClustered = FALSE
    /\ volumeNamePrefix = <<>>
    /\ hasDevLXDTokenChanged = FALSE
    /\ SessionReady
    /\ node = NoMounts
    /\ h = [p \in Procs |-> Idle]
    /\ calls = 0
    /\ \E l \in IdStrings(MaxIdLen), q \in IdStrings(MaxIdLen), n \in IdStrings(MaxIdLen) :
        last = [req |-> [rpc |-> "getVolumeID", clusterMember |-> l, poolName |-> q,
                         volName |-> n],
                code |-> "none", resp |-> NoResp, muts |-> 0, id |-> <<>>,
                locked |-> FALSE, err |-> Nil, refreshed |-> FALSE]

\* volumeID := getVolumeID(clusterMember, poolName, volName)
getVolumeIDCall ==
    /\ last.code = "none"
    /\ last' = [last EXCEPT !.code = "encoded",
                            !.id = getVolumeID(last.req.clusterMember, last.req.poolName,
                                               last.req.volName)]
    /\ UNCHANGED <<locks, Remote, Config, h, calls>>

\* clusterMember, poolName, volName, err := splitVolumeID(volumeID)
splitVolumeIDCall ==
    /\ last.code = "encoded"
    /\ last' = [last EXCEPT !.code = IF splitVolumeID(last.id).ok THEN "OK"
                                     ELSE "InvalidArgument",
                            !.resp = splitVolumeID(last.id)]
    /\ UNCHANGED <<locks, Remote, Config, h, calls>>

NextCodec == getVolumeIDCall \/ splitVolumeIDCall

SpecCodec == InitCodec /\ [][NextCodec]_vars

---------------------------------------------------------------------------
(* The volume name derivation on its own: the first lines of CreateVolume    *)
(* applied twice to every short name, under each configured prefix.          *)

\* Length of the longest orchestrator name.
MaxNameLen == 4

NameAlphabet == {"x", "a", "-"}

NameStrings == UNION {[1..m -> NameAlphabet] : m \in 0..MaxNameLen}

NamePrefixes == {<<>>, <<"k">>}

InitName ==
    /\ locks = {}
    /\ volumes = <<>>
    /\ instances = [n \in {Node1} |-> <<>>]
    /\ snapshots = {}
    /\ isClustered = FALSE
    /\ volumeNamePrefix \in NamePrefixes
    /\ hasDevLXDTokenChanged = FALSE
    /\ SessionReady
    /\ node = NoMounts
    /\ h = [p \in Procs |-> Idle]
    /\ calls = 0
    /\ \E n \in NameStrings :
        last = [req |-> [rpc |-> "DeriveName", name |-> n],
                code |-> "none", resp |-> NoResp, muts |-> 0, id |-> <<>>,
                locked |-> FALSE, err |-> Nil, refreshed |-> FALSE]

\* The result of lines 53-63 for the name of the request: a rejection when the
\* name has no dash, the volume name otherwise.
DeriveNameResult ==
    IF ~Cut(last.req.name, "-").found THEN [code |-> "InvalidArgument", volName |-> <<>>]
    ELSE [code |-> "OK", volName |-> DeriveName(last.req.name, volumeNamePrefix)]

\* First call.
DeriveNameCall ==
    /\ last.code = "none"
    /\ last' = [last EXCEPT !.code = DeriveNameResult.code, !.id = DeriveNameResult.volName]
    /\ UNCHANGED <<locks, Remote, Config, h, calls>>

\* Second call with the same name.
DeriveNameAgain ==
    /\ last.code # "none"
    /\ last.resp = NoResp
    /\ last' = [last EXCEPT !.resp = DeriveNameResult]
    /\ UNCHANGED <<locks, Remote, Config, h, calls>>

NextName == DeriveNameCall \/ DeriveNameAgain

SpecName == InitName /\ [][NextName]_vars

---------------------------------------------------------------------------
(* The snapshot name of CreateSnapshot next to the volume name of           *)
(* CreateVolume, derived from the same request name.                        *)

\* A snapshot name derived like the volume name, configured prefix included.
DeriveSnapshotNameResultPrefixed ==
    IF last.req.name = <<>> \/ ~Cut(last.req.name, "-").found
    THEN [code |-> "InvalidArgument", snapshotName |-> <<>>]
    ELSE [code |-> "OK", snapshotName |-> DeriveName(last.req.name, volumeNamePrefix)]

\* The result of CreateSnapshot's lines 376-393 for the name of the request: a
\* rejection when the name is empty or has no dash, the snapshot name otherwise.
DeriveSnapshotNameResult ==
    IF last.req.name = <<>> \/ ~Cut(last.req.name, "-").found
    THEN [code |-> "InvalidArgument", snapshotName |-> <<>>]
    ELSE [code |-> "OK", snapshotName |-> DeriveSnapshotName(last.req.name)]

\* CreateSnapshot derives the snapshot name from the name CreateVolume was given.
DeriveSnapshotNameCall ==
    /\ last.code # "none"
    /\ last.resp = NoResp
    /\ last' = [last EXCEPT !.resp = DeriveSnapshotNameResult]
    /\ UNCHANGED <<locks, Remote, Config, h, calls>>

NextSnapshotName == DeriveNameCall \/ DeriveSnapshotNameCall

SpecSnapshotName == InitName /\ [][NextSnapshotName]_vars

---------------------------------------------------------------------------
(* Two orchestrator names given to CreateVolume under one configuration.    *)

InitNamePair ==
    /\ locks = {}
    /\ volumes = <<>>
    /\ instances = [n \in {Node1} |-> <<>>]
    /\ snapshots = {}
    /\ isClustered = FALSE
    /\ volumeNamePrefix \in NamePrefixes
    /\ hasDevLXDTokenChanged = FALSE
    /\ SessionReady
    /\ node = NoMounts
    /\ h = [p \in Procs |-> Idle]
    /\ calls = 0
    /\ \E n \in NameStrings, m \in NameStrings :
        last = [req |-> [rpc |-> "DeriveName", name |-> n, other |-> m],
                code |-> "none", resp |-> NoResp, muts |-> 0, id |-> <<>>,
                locked |-> FALSE, err |-> Nil, refreshed |-> FALSE]

\* The result of lines 53-63 for the other name.
DeriveOtherNameResult ==
    IF ~Cut(last.req.other, "-").found THEN [code |-> "InvalidArgument", volName |-> <<>>]
    ELSE [code |-> "OK", volName |-> DeriveName(last.req.other, volumeNamePrefix)]

\* The call with the other name.
DeriveOtherNameCall ==
    /\ last.code # "none"
    /\ last.resp = NoResp
    /\ last' = [last EXCEPT !.resp = DeriveOtherNameResult]
    /\ UNCHANGED <<locks, Remote, Config, h, calls>>

NextNamePair == DeriveNameCall \/ DeriveOtherNameCall

SpecNamePair == InitNamePair /\ [][NextNamePair]_vars

---------------------------------------------------------------------------
(* Cloning: CreateVolume with a volume as content source, served by two      *)
(* goroutines, with DeleteVolume to take the source away.                    *)

CloneSource == [kind |-> "volume", id |-> getVolumeID(<<>>, PoolP, DeriveName(NameA, <<>>))]

\* Requests for a copy of the volume of NameA under the name NameB.
CloneCreateRequests ==
    {[NewCreateVolumeRequest(NameB, <<c>>, b, <<>>) EXCEPT !.source = CloneSource] :
        c \in {"mount", "block"}, b \in 1..MaxBytes}

CloneDeleteRequests == {[rpc |-> "DeleteVolume", volumeId |-> CloneSource.id]}

\* The server at start: no volume, or the source volume with any content type and
\* with a size of up to MaxBytes, or with no size configured.
CloneInitialVolumes ==
    {<<>>} \cup
    {[k \in {VolKey(<<>>, PoolP, DeriveName(NameA, <<>>))} |->
        [size |-> sz, contentType |-> c]] :
            sz \in {<<>>} \cup {FormatInt(b) : b \in 1..MaxBytes},
            c \in {"filesystem", "block"}}

InitClone == InitWith(CloneInitialVolumes, {FALSE})

NextClone ==
    \E p \in {1, 2} :
        \/ \E r \in CloneCreateRequests : CreateVolumeBegin(p, r)
        \/ CreateVolumeResolvePool(p)
        \/ CreateVolumeTryLock(p)
        \/ CreateVolumeGetVolume(p)
        \/ CreateVolumeGetSource(p)
        \/ CreateVolumeRequest(p)
        \/ CreateVolumeWait(p)
        \/ \E r \in CloneDeleteRequests : DeleteVolumeBegin(p, r)
        \/ DeleteVolumeTryLock(p)
        \/ DeleteVolumeRequest(p)
        \/ DeleteVolumeWait(p)

SpecClone == InitClone /\ [][NextClone]_vars

---------------------------------------------------------------------------
(* Topology: CreateVolume on a standalone or clustered server, for a pool   *)
(* with a node-local or a remote driver, with and without a preferred       *)
(* cluster member.                                                          *)

TopologyCreateRequests ==
    {[NewCreateVolumeRequest(NameA, <<"mount">>, 1, t)
        EXCEPT !.params = [k \in {ParameterStoragePool} |-> pool]] :
            pool \in {PoolP, PoolR}, t \in {<<>>, <<MemberM>>, <<"nokey", MemberM>>}}

InitTopology == InitWith({<<>>}, BOOLEAN)

NextTopology ==
    \E p \in {1, 2} :
        \/ \E r \in TopologyCreateRequests : CreateVolumeBegin(p, r)
        \/ CreateVolumeResolvePool(p)
        \/ CreateVolumeTryLock(p)
        \/ CreateVolumeGetVolume(p)
        \/ CreateVolumeRequest(p)
        \/ CreateVolumeWait(p)

SpecTopology == InitTopology /\ [][NextTopology]_vars

---------------------------------------------------------------------------
(* CreateVolume for names with and without the separators of the volume ID, *)
(* on a node-local and on a remote pool, with and without a preferred       *)
(* member.                                                                  *)

NameColon == <<"x", "-", "a", ":", "b">>

NameSlash == <<"x", "-", "a", "/", "b">>

RoundTripCreateRequests ==
    {[NewCreateVolumeRequest(n, <<"mount">>, 1, t)
        EXCEPT !.params = [k \in {ParameterStoragePool} |-> pool]] :
            n \in {NameA, NameColon, NameSlash}, pool \in {PoolP, PoolR},
            t \in {<<>>, <<MemberM>>}}

InitRoundTrip == InitWith({<<>>}, BOOLEAN)

NextRoundTrip ==
    \E p \in {1} :
        \/ \E r \in RoundTripCreateRequests : CreateVolumeBegin(p, r)
        \/ CreateVolumeResolvePool(p)
        \/ CreateVolumeTryLock(p)
        \/ CreateVolumeGetVolume(p)
        \/ CreateVolumeRequest(p)
        \/ CreateVolumeWait(p)

SpecRoundTrip == InitRoundTrip /\ [][NextRoundTrip]_vars

---------------------------------------------------------------------------
(* Retried CreateVolume: the orchestrator repeats one request until it is      *)
(* answered with success.  The first MaxCalls attempts may overlap on the two  *)
(* goroutines; a repetition follows an answer other than success.              *)

RetryProcs == {1, 2}

RetryRequest == NewCreateVolumeRequest(NameA, <<"mount">>, 1, <<>>)

InitRetry == InitWith({<<>>}, BOOLEAN)

RetrySucceeded == last.req = RetryRequest /\ last.code = "OK"

\* The orchestrator repeats the request after an answer that is not success.
CreateVolumeRetry(p) ==
    /\ last.req = RetryRequest
    /\ ~RetrySucceeded
    /\ \A q \in RetryProcs : h[q].pc = "idle"
    /\ UNCHANGED calls
    /\ CreateVolumeEntry(p, RetryRequest)

RetryStep(p) ==
    \/ ~RetrySucceeded /\ CreateVolumeBegin(p, RetryRequest)
    \/ CreateVolumeRetry(p)
    \/ CreateVolumeResolvePool(p)
    \/ CreateVolumeTryLock(p)
    \/ CreateVolumeGetVolume(p)
    \/ CreateVolumeRequest(p)
    \/ CreateVolumeWait(p)

NextRetry == \E p \in RetryProcs : RetryStep(p)

SpecRetry == InitRetry /\ [][NextRetry]_vars

\* The places of a CreateVolume handler.
RetryPlaces == {"idle", "cv_pool", "cv_lock", "cv_getvol", "cv_create", "cv_wait"}

\* A step of the handler at p from place c in which no remote call fails and no
\* lock is found held: the handler goes on, or returns success.
GoodStep(p, c) ==
    /\ h[p].pc = c
    /\ RetryStep(p)
    /\ h'[p].pc # "idle" \/ last'.code = "OK"

\* Handlers and the orchestrator keep running; locks are eventually found free and
\* remote calls eventually succeed: each step that can go well infinitely often
\* eventually does.
FairRetry ==
    /\ SpecRetry
    /\ \A p \in RetryProcs :
        /\ WF_vars(RetryStep(p))
        /\ \A c \in RetryPlaces : SF_vars(GoodStep(p, c))

---------------------------------------------------------------------------
(* The error classifier on its own: ToGRPCCode applied to every error.       *)

\* The HTTP status codes a remote error can carry.
StatusCodes == 100..599

\* No error, a remote error with any status code, the two context errors, and an
\* error of no recognized kind.
ClassifiedErrors ==
    {Nil, CtxDeadline, CtxCanceled, OtherError} \cup {StatusError(c) : c \in StatusCodes}

InitErrors ==
    /\ locks = {}
    /\ volumes = <<>>
    /\ instances = [n \in {Node1} |-> <<>>]
    /\ snapshots = {}
    /\ isClustered = FALSE
    /\ volumeNamePrefix = <<>>
    /\ hasDevLXDTokenChanged = FALSE
    /\ SessionReady
    /\ node = NoMounts
    /\ h = [p \in Procs |-> Idle]
    /\ calls = 0
    /\ \E e \in ClassifiedErrors :
        last = [req |-> [rpc |-> "ToGRPCCode"],
                code |-> "none", resp |-> NoResp, muts |-> 0, id |-> <<>>,
                locked |-> FALSE, err |-> e, refreshed |-> FALSE]

\* code := errors.ToGRPCCode(err)
ToGRPCCodeCall ==
    /\ last.code = "none"
    /\ last' = [last EXCEPT !.code = ToGRPCCode(last.err)]
    /\ UNCHANGED <<locks, Remote, Config, h, calls>>

NextErrors == ToGRPCCodeCall

SpecErrors == InitErrors /\ [][NextErrors]_vars

---------------------------------------------------------------------------
(* The session manager: Driver.Run on the main goroutine, then two handler   *)
(* goroutines calling Driver.DevLXDClient step by step, the token file being *)
(* rewritten and the watcher's callback running in between.                  *)

\* Number of times the token file is rewritten.
MaxTokens == 2

SessionProcs == {1, 2}

NoClient == [token |-> 0 - 1]
NoInfo == [auth |-> "", clustered |-> FALSE, location |-> <<>>]

\* What GetState can report: an untrusted client is shown an unclustered server;
\* a trusted one the server as it is, standalone or clustered with the instance
\* on a member.
ServerInfos ==
    {[auth |-> "untrusted", clustered |-> FALSE, location |-> <<>>],
     [auth |-> "trusted", clustered |-> FALSE, location |-> <<>>],
     [auth |-> "trusted", clustered |-> TRUE, location |-> MemberM]}

\* A goroutine outside DevLXDClient: the token it read, the client it built, the
\* server info it fetched, and what DevLXDClient is to return.
SessionIdle ==
    [pc |-> "idle", token |-> 0 - 1, client |-> NoClient, info |-> NoInfo,
     ret |-> NoClient, err |-> Nil]

\* lxdValidate.IsHostname on the names the model uses: 1 to 63 characters, no dash
\* at either end.
IsHostname(name) ==
    /\ Len(name) >= 1 /\ Len(name) <= 63
    /\ name[1] # "-" /\ name[Len(name)] # "-"

\* The driver after NewDriver: no client, the main goroutine about to execute Run.
InitSession ==
    /\ locks = {}
    /\ volumes = <<>>
    /\ instances = [n \in {Node1} |-> <<>>]
    /\ snapshots = {}
    /\ isClustered = FALSE
    /\ volumeNamePrefix \in {<<"k">>, <<"-">>}
    /\ hasDevLXDTokenChanged = FALSE
    /\ devLXD = NoClient
    /\ location = <<>>
    /\ lock = 0
    /\ tokenFile = 0
    /\ watched = 0
    /\ node = NoMounts
    /\ h = [p \in SessionProcs \cup {Main} |->
                IF p = Main THEN [SessionIdle EXCEPT !.pc = "run_validate"] ELSE SessionIdle]
    /\ last = [req |-> NoReq, code |-> "none", resp |-> NoResp, muts |-> 0,
               id |-> <<>>, locked |-> FALSE, err |-> Nil, refreshed |-> FALSE]
    /\ calls = 0

SessionFields == <<devLXD, location, isClustered, hasDevLXDTokenChanged>>

\* Everything but the goroutines' positions and the driver's session fields.
SessionRest == <<locks, Remote, volumeNamePrefix, tokenFile, watched, node, last, calls>>

\* The goroutine at p moves to position pc with the locals changed as given.
Goto(p, hp) == h' = [h EXCEPT ![p] = hp]

\* Run: d.Validate() (lines 332-335), then the call of DevLXDClient.
RunValidate ==
    /\ h[Main].pc = "run_validate"
    /\ IF IsHostname(volumeNamePrefix)
       THEN Goto(Main, [h[Main] EXCEPT !.pc = "dc_lock"])
       ELSE Goto(Main, [h[Main] EXCEPT !.pc = "exited", !.err = OtherError])
    /\ UNCHANGED <<SessionFields, lock, SessionRest>>

\* A DevLXDClient that enters without waiting for the mutex.
DevLXDClientLockFree(p) ==
    /\ h[p].pc = "dc_lock"
    /\ lock' = p
    /\ Goto(p, [h[p] EXCEPT !.pc = "dc_cached"])
    /\ UNCHANGED <<SessionFields, SessionRest>>

\* d.lock.Lock() (line 271).
DevLXDClientLock(p) ==
    /\ h[p].pc = "dc_lock"
    /\ lock = 0
    /\ lock' = p
    /\ Goto(p, [h[p] EXCEPT !.pc = "dc_cached"])
    /\ UNCHANGED <<SessionFields, SessionRest>>

\* Return the existing client if it exists and the token has not changed (lines 275-277).
DevLXDClientCached(p) ==
    /\ h[p].pc = "dc_cached"
    /\ IF devLXD # NoClient /\ ~hasDevLXDTokenChanged
       THEN Goto(p, [h[p] EXCEPT !.pc = "dc_unlock", !.ret = devLXD])
       ELSE Goto(p, [h[p] EXCEPT !.pc = "dc_read"])
    /\ UNCHANGED <<SessionFields, lock, SessionRest>>

\* os.ReadFile(d.devLXDTokenFile) (lines 281-286).
DevLXDClientReadToken(p) ==
    /\ h[p].pc = "dc_read"
    /\ \/ Goto(p, [h[p] EXCEPT !.pc = "dc_connect", !.token = tokenFile])
       \/ Goto(p, [h[p] EXCEPT !.pc = "dc_unlock", !.err = OtherError])
    /\ UNCHANGED <<SessionFields, lock, SessionRest>>

\* UseBearerToken on the cached client, or devlxd.Connect when there is none
\* (lines 289-298); only Connect can fail.
DevLXDClientConnect(p) ==
    /\ h[p].pc = "dc_connect"
    /\ \/ Goto(p, [h[p] EXCEPT !.pc = "dc_state", !.client = [token |-> h[p].token]])
       \/ /\ ~(devLXD # NoClient /\ hasDevLXDTokenChanged)
          /\ Goto(p, [h[p] EXCEPT !.pc = "dc_unlock", !.err = OtherError])
    /\ UNCHANGED <<SessionFields, lock, SessionRest>>

\* devLXDClient.GetState() (lines 301-304).
DevLXDClientGetState(p) ==
    /\ h[p].pc = "dc_state"
    /\ \/ \E info \in ServerInfos : Goto(p, [h[p] EXCEPT !.pc = "dc_auth", !.info = info])
       \/ Goto(p, [h[p] EXCEPT !.pc = "dc_unlock", !.err = StatusError(500)])
    /\ UNCHANGED <<SessionFields, lock, SessionRest>>

\* A trust check that lets every client through.
DevLXDClientCheckTrustSkipped(p) ==
    /\ h[p].pc = "dc_auth"
    /\ Goto(p, [h[p] EXCEPT !.pc = "dc_store"])
    /\ UNCHANGED <<SessionFields, lock, SessionRest>>

\* Fail early if not authenticated (lines 309-311).
DevLXDClientCheckTrust(p) ==
    /\ h[p].pc = "dc_auth"
    /\ IF h[p].info.auth # "trusted"
       THEN Goto(p, [h[p] EXCEPT !.pc = "dc_unlock", !.err = OtherError])
       ELSE Goto(p, [h[p] EXCEPT !.pc = "dc_store"])
    /\ UNCHANGED <<SessionFields, lock, SessionRest>>

\* Store the client and the server information, clear the flag (lines 313-318).
DevLXDClientStore(p) ==
    /\ h[p].pc = "dc_store"
    /\ devLXD' = h[p].client
    /\ location' = h[p].info.location
    /\ isClustered' = h[p].info.clustered
    /\ hasDevLXDTokenChanged' = FALSE
    /\ Goto(p, [h[p] EXCEPT !.pc = "dc_unlock", !.ret = h[p].client])
    /\ UNCHANGED <<lock, SessionRest>>

\* A Run that goes on to watch the token file whatever DevLXDClient returned.
RunAfterConnectIgnored(err) == "run_watch"

\* Run after d.DevLXDClient() (lines 338-341): return the error, or go on.
RunAfterConnect(err) == IF err # Nil THEN "exited" ELSE "run_watch"

\* The response of a handler whose DevLXDClient call failed, as in DeleteVolume
\* (lines 334-337).
SessionFailed(err) ==
    [req |-> [rpc |-> "DeleteVolume"], code |-> ToGRPCCode(err), resp |-> NoResp,
     muts |-> 0, id |-> <<>>, locked |-> FALSE, err |-> err, refreshed |-> FALSE]

\* defer d.lock.Unlock(), and the return to the caller: Run on the main goroutine,
\* a handler elsewhere.
DevLXDClientUnlock(p) ==
    /\ h[p].pc = "dc_unlock"
    /\ lock' = 0
    /\ IF p = Main
       THEN /\ Goto(p, [h[p] EXCEPT !.pc = RunAfterConnect(h[p].err)])
            /\ UNCHANGED last
       ELSE IF h[p].err # Nil
       THEN /\ Goto(p, SessionIdle)
            /\ last' = SessionFailed(h[p].err)
       ELSE /\ Goto(p, [h[p] EXCEPT !.pc = "dv_target"])
            /\ UNCHANGED last
    /\ UNCHANGED <<SessionFields, locks, Remote, node, volumeNamePrefix, tokenFile, watched, calls>>

\* Run: fs.WatchFile (lines 352-355); the watcher has reported nothing yet.
RunWatchFile ==
    /\ h[Main].pc = "run_watch"
    /\ \/ Goto(Main, [h[Main] EXCEPT !.pc = "run_listen"])
       \/ Goto(Main, [h[Main] EXCEPT !.pc = "exited", !.err = OtherError])
    /\ UNCHANGED <<SessionFields, lock, SessionRest>>

\* Run: net.Listen, service registration and Serve (lines 358-397).
RunListen ==
    /\ h[Main].pc = "run_listen"
    /\ \/ Goto(Main, [h[Main] EXCEPT !.pc = "serving"])
       \/ Goto(Main, [h[Main] EXCEPT !.pc = "exited", !.err = OtherError])
    /\ UNCHANGED <<SessionFields, lock, SessionRest>>

\* The token file is rewritten.
WriteTokenFile ==
    /\ tokenFile < MaxTokens
    /\ tokenFile' = tokenFile + 1
    /\ UNCHANGED <<SessionFields, lock, locks, Remote, node, volumeNamePrefix, watched, h, last, calls>>

\* identityServer.Probe: always ready.
Probe ==
    /\ h[Main].pc = "serving"
    /\ calls < MaxCalls
    /\ calls' = calls + 1
    /\ last' = [req |-> [rpc |-> "Probe"], code |-> "OK", resp |-> [kind |-> "Probe", ready |-> TRUE],
                muts |-> 0, id |-> <<>>, locked |-> FALSE, err |-> Nil, refreshed |-> FALSE]
    /\ UNCHANGED <<SessionFields, lock, locks, Remote, node, volumeNamePrefix, tokenFile, watched, h>>

\* A handler is called and calls c.driver.DevLXDClient() (DeleteVolume, line 334).
SessionHandlerBegin(p) ==
    /\ h[Main].pc = "serving"
    /\ calls < MaxCalls
    /\ h[p].pc = "idle"
    /\ calls' = calls + 1
    /\ Goto(p, [SessionIdle EXCEPT !.pc = "dc_lock"])
    /\ UNCHANGED <<SessionFields, lock, locks, Remote, node, volumeNamePrefix, tokenFile, watched, last>>

\* The handler reads c.driver.isClustered to bind the client to the target
\* (DeleteVolume, lines 344-347), without taking the driver mutex, and goes on.
SessionHandlerTarget(p) ==
    /\ h[p].pc = "dv_target"
    /\ Goto(p, SessionIdle)
    /\ last' = [req |-> [rpc |-> "DeleteVolume"], code |-> "OK",
                resp |-> [kind |-> "DeleteVolume", client |-> h[p].ret, useTarget |-> isClustered],
                muts |-> 0, id |-> <<>>, locked |-> FALSE, err |-> Nil, refreshed |-> FALSE]
    /\ UNCHANGED <<SessionFields, lock, locks, Remote, node, volumeNamePrefix, tokenFile, watched, calls>>

NextSession ==
    \/ RunValidate
    \/ RunWatchFile
    \/ RunListen
    \/ WriteTokenFile
    \/ handleTokenFileChange
    \/ Probe
    \/ \E p \in SessionProcs :
        \/ SessionHandlerBegin(p)
        \/ SessionHandlerTarget(p)
    \/ \E p \in SessionProcs \cup {Main} :
        \/ DevLXDClientLock(p)
        \/ DevLXDClientCached(p)
        \/ DevLXDClientReadToken(p)
        \/ DevLXDClientConnect(p)
        \/ DevLXDClientGetState(p)
        \/ DevLXDClientCheckTrust(p)
        \/ DevLXDClientStore(p)
        \/ DevLXDClientUnlock(p)

SpecSession == InitSession /\ [][NextSession]_vars

---------------------------------------------------------------------------
(* fs.WatchFile (internal/fs): the watcher of one file path.                *)
(* In this specification tokenFile is the state of the watched path in the  *)
(* file system, watched is the fsnotify watcher (its Events channel and the *)
(* context it runs under), and h holds the goroutine that calls WatchFile   *)
(* and then runs its loop.                                                  *)

Watcher == "watcher"

\* The path handed to WatchFile, and the names of the other directory entries
\* that a swap touches.
WatchedPath == "dir/file"
TmpLink == "dir/file_tmp"
DataLink == "dir/..data"
DataTmpLink == "dir/..data_tmp"

\* The files a symlinked path can resolve to (they live in other directories).
SwapTargets == {"dir/subdir1/file", "dir/subdir2/file"}

\* How the path is laid out: a regular file in the watched directory (present or
\* not), a symlink that is itself replaced by a rename, or a path that reaches
\* its file through a symlinked directory entry which is replaced by a rename.
PathStates ==
    {[kind |-> "file", real |-> r] : r \in {"", WatchedPath}}
        \cup {[kind |-> k, real |-> r] : k \in {"link", "data"}, r \in SwapTargets}

\* filepath.EvalSymlinks(path): the real path, "" when it cannot be resolved.
EvalSymlinks == tokenFile.real

\* The watcher delivers events of the watched directory while it is installed.
Watching == h[Watcher].pc = "select"

Post(evs) == IF Watching THEN [watched EXCEPT !.Events = @ \o evs] ELSE watched

\* Everything the watcher does not touch.
WatchRest ==
    <<locks, Remote, isClustered, volumeNamePrefix, hasDevLXDTokenChanged, devLXD, location, lock,
      node>>

InitWatch ==
    /\ locks = {}
    /\ volumes = <<>>
    /\ instances = [n \in {Node1} |-> <<>>]
    /\ snapshots = {}
    /\ isClustered = FALSE
    /\ volumeNamePrefix = <<"k">>
    /\ hasDevLXDTokenChanged = FALSE
    /\ devLXD = NoClient
    /\ location = <<>>
    /\ lock = 0
    /\ tokenFile \in PathStates
    /\ watched = [Events |-> <<>>, ctx |-> "live"]
    /\ node = NoMounts
    /\ h = [p \in {Watcher} |-> [pc |-> "wf_eval", curRealPath |-> "", hits |-> 0]]
    /\ last = [req |-> [rpc |-> "none"], hits |-> 0, watching |-> FALSE]
    /\ calls = 0

\* A file operation by another process: the path changes to state f, the watched
\* directory reports evs.
FileOp(name, f, evs) ==
    /\ calls < MaxCalls
    /\ calls' = calls + 1
    /\ tokenFile' = f
    /\ watched' = Post(evs)
    /\ last' = [req |-> [rpc |-> name], hits |-> h[Watcher].hits, watching |-> Watching]
    /\ UNCHANGED <<WatchRest, h>>

\* os.WriteFile(file, ...): creates the file when it is not there, and writes it.
WriteFile ==
    /\ tokenFile.kind = "file"
    /\ FileOp("WriteFile", [tokenFile EXCEPT !.real = WatchedPath],
              IF tokenFile.real = ""
              THEN <<[Name |-> WatchedPath, Op |-> "Create"], [Name |-> WatchedPath, Op |-> "Write"]>>
              ELSE <<[Name |-> WatchedPath, Op |-> "Write"]>>)

\* os.Remove(file).
RemoveFile ==
    /\ tokenFile.kind = "file"
    /\ tokenFile.real # ""
    /\ FileOp("Remove", [tokenFile EXCEPT !.real = ""],
              <<[Name |-> WatchedPath, Op |-> "Remove"]>>)

\* os.Rename(tmpLink, symlink): the path itself is replaced by a symlink to t.
SwapLink(t) ==
    /\ tokenFile.kind = "link"
    /\ t # tokenFile.real
    /\ FileOp("SwapLink", [tokenFile EXCEPT !.real = t],
              <<[Name |-> TmpLink, Op |-> "Rename"], [Name |-> WatchedPath, Op |-> "Create"]>>)

\* The same swap of the directory entry the path goes through (the Kubernetes
\* update of a mounted secret): the path resolves to t, its own entry is untouched.
SwapData(t) ==
    /\ tokenFile.kind = "data"
    /\ t # tokenFile.real
    /\ FileOp("SwapData", [tokenFile EXCEPT !.real = t],
              <<[Name |-> DataTmpLink, Op |-> "Rename"], [Name |-> DataLink, Op |-> "Create"]>>)

\* curRealPath, _ := filepath.EvalSymlinks(path) (line 537).
WatchFileEval ==
    /\ h[Watcher].pc = "wf_eval"
    /\ h' = [h EXCEPT ![Watcher].pc = "wf_add", ![Watcher].curRealPath = EvalSymlinks]
    /\ UNCHANGED <<WatchRest, tokenFile, watched, last, calls>>

\* fsnotify.NewWatcher and watcher.Add(filepath.Dir(path)) (lines 539-553, 590), then
\* the goroutine is started and WatchFile returns nil; or one of them fails.
WatchFileAdd ==
    /\ h[Watcher].pc = "wf_add"
    /\ \E ok \in BOOLEAN :
        /\ h' = [h EXCEPT ![Watcher].pc = IF ok THEN "select" ELSE "failed"]
        /\ last' = [req |-> [rpc |-> "WatchFile"], hits |-> 0, watching |-> ok]
    /\ UNCHANGED <<WatchRest, tokenFile, watched, calls>>

\* A watcher that never looks at what the path resolves to.
isFileSymlinkChangedNever(newRealPath, curRealPath) == FALSE

\* isFileSymlinkChanged (line 574).
isFileSymlinkChanged(newRealPath, curRealPath) == newRealPath # "" /\ newRealPath # curRealPath

\* isFileContentChanged (line 570).
isFileContentChanged(event) == event.Name = WatchedPath /\ event.Op \in {"Create", "Write"}

\* case event := <-watcher.Events (lines 557-579).
WatcherEvent ==
    /\ h[Watcher].pc = "select"
    /\ watched.Events # <<>>
    /\ LET event == Head(watched.Events)
           newRealPath == EvalSymlinks
       IN  h' = IF isFileContentChanged(event) \/ isFileSymlinkChanged(newRealPath, h[Watcher].curRealPath)
                THEN [h EXCEPT ![Watcher].curRealPath = newRealPath, ![Watcher].hits = @ + 1]
                ELSE h
    /\ watched' = [watched EXCEPT !.Events = Tail(@)]
    /\ UNCHANGED <<WatchRest, tokenFile, last, calls>>

\* The context is cancelled.
Cancel ==
    /\ Watching
    /\ watched.ctx = "live"
    /\ watched' = [watched EXCEPT !.ctx = "done"]
    /\ UNCHANGED <<WatchRest, tokenFile, h, last, calls>>

\* case <-ctx.Done(): return, and the deferred watcher.Close() (lines 554, 584-585).
WatcherDone ==
    /\ h[Watcher].pc = "select"
    /\ watched.ctx = "done"
    /\ h' = [h EXCEPT ![Watcher].pc = "stopped"]
    /\ watched' = [watched EXCEPT !.Events = <<>>]
    /\ UNCHANGED <<WatchRest, tokenFile, last, calls>>

NextWatch ==
    \/ WatchFileEval
    \/ WatchFileAdd
    \/ WriteFile
    \/ RemoveFile
    \/ \E t \in SwapTargets : SwapLink(t)
    \/ \E t \in SwapTargets : SwapData(t)
    \/ WatcherEvent
    \/ Cancel
    \/ WatcherDone

SpecWatch == InitWatch /\ [][NextWatch]_vars

\* The goroutine of the watcher keeps being scheduled: an event waiting on the
\* channel is eventually received unless the goroutine returns.
FairWatch == SpecWatch /\ WF_vars(WatcherEvent)

---------------------------------------------------------------------------
(* nodeServer.NodePublishVolume (internal/driver/node.go).                  *)
(* node is the file system of the node: the mount table, the directories of *)
(* filesystem volumes under the driver's mount path, and the disk devices   *)
(* of block volumes.                                                        *)

NodeProcs == {1, 2}

\* The volume the requests are about, and the target path of the container.
NodeVolume == DeriveName(NameA, <<>>)
NodeTarget == "/t"

NodePublishRequests ==
    {[rpc |-> "NodePublishVolume", volumeId |-> v, caps |-> <<c>>, targetPath |-> t,
      readonly |-> ro, mountFlags |-> f] :
        v \in {IdOf(<<>>, NameA), BadVolumeId}, c \in {"block", "mount", "none"},
        t \in {"", NodeTarget}, ro \in BOOLEAN, f \in {<<>>, <<"noatime">>}}

\* A mount of the table.
MountEntry(sourcePath, targetPath, contentType, mountOptions) ==
    [source |-> sourcePath, target |-> targetPath, contentType |-> contentType,
     options |-> mountOptions]

\* The node at start: the target not mounted, or bind mounted read-write from the
\* volume's directory; the volume's directory and its disk device present or not.
InitialNodes ==
    {[mounts |-> m, paths |-> ps, disks |-> ds] :
        m \in {{}, {MountEntry(<<driverFileSystemMountPath, NodeVolume>>, NodeTarget,
                               "filesystem", <<"bind">>)}},
        ps \in SUBSET {NodeVolume}, ds \in SUBSET {NodeVolume}}

InitNode ==
    /\ locks = {}
    /\ volumes = <<>>
    /\ instances = [n \in {Node1} |-> <<>>]
    /\ snapshots = {}
    /\ isClustered = FALSE
    /\ volumeNamePrefix = <<>>
    /\ hasDevLXDTokenChanged = FALSE
    /\ SessionReady
    /\ node \in InitialNodes
    /\ h = [p \in NodeProcs |-> Idle]
    /\ last = [req |-> NoReq, code |-> "none", resp |-> NoResp, muts |-> 0,
               id |-> <<>>, locked |-> FALSE, err |-> Nil, refreshed |-> FALSE]
    /\ calls = 0

\* Everything NodePublishVolume does not touch.
NodeRest ==
    <<Remote, isClustered, volumeNamePrefix, hasDevLXDTokenChanged, devLXD, location, lock,
      tokenFile, watched>>

\* fs.IsMounted(target): the target is a mount point.
IsMounted(target) == \E m \in node.mounts : m.target = target

\* fs.PathExists(sourcePath) for the directory of volume volName.
PathExists(volName) == volName \in node.paths

\* strings.ReplaceAll(volName, "-", "--")
RECURSIVE DoubleDashes(_)
DoubleDashes(s) ==
    IF s = <<>> THEN <<>>
    ELSE (IF Head(s) = "-" THEN <<"-", "-">> ELSE <<Head(s)>>) \o DoubleDashes(Tail(s))

\* strings.HasPrefix(s, prefix)
HasPrefix(s, prefix) == Len(prefix) <= Len(s) /\ SubSeq(s, 1, Len(prefix)) = prefix

\* The entry of /dev/disk/by-id for the attached volume w: a bus part, "_lxd_", and
\* the volume's name with every dash doubled.
DeviceName(w) == <<"scsi", "_lxd_">> \o DoubleDashes(w)

\* An entry that is no device of the platform.
ForeignDevice == <<"nvme">>

\* os.ReadDir("/dev/disk/by-id"): the entries of the attached volumes and a foreign one.
ReadDir == {DeviceName(w) : w \in node.disks} \cup {ForeignDevice}

\* getDiskDevicePath(volName) (lines 140-171): the first entry, in the order of
\* os.ReadDir (sorted by name), that holds "_lxd_" and whose suffix after it is a
\* prefix of the escaped volume name; [ok, dev].  The matching entries are prefixes
\* of one string after a common head, so the first in name order is the shortest.
getDiskDevicePath(volName) ==
    LET volDevName == DoubleDashes(volName)
        hits == {d \in ReadDir : Cut(d, "_lxd_").found
                                 /\ HasPrefix(volDevName, Cut(d, "_lxd_").after)}
    IN  IF hits = {} THEN [ok |-> FALSE, dev |-> <<>>]
        ELSE [ok |-> TRUE, dev |-> CHOOSE d \in hits : \A e \in hits : Len(d) <= Len(e)]

\* The options of the bind mount (lines 73-78, 103-105).
mountOptions(r) ==
    <<"bind">> \o (IF r.readonly THEN <<"ro">> ELSE <<>>)
               \o (IF r.caps[1] = "mount" THEN r.mountFlags ELSE <<>>)

\* Validation of the request (lines 53-71).
NodePublishVolumeBegin(p, r) ==
    /\ calls < MaxCalls
    /\ h[p].pc = "idle"
    /\ calls' = calls + 1
    /\ UNCHANGED <<NodeRest, node>>
    /\ LET hp == [Idle EXCEPT !.req = r]
           sid == splitVolumeID(r.volumeId)
       IN  IF ~ValidateVolumeCapabilities(r.caps) THEN Return(p, hp, "InvalidArgument", NoResp)
           ELSE IF ~sid.ok THEN Return(p, hp, "InvalidArgument", NoResp)
           ELSE IF r.targetPath = "" THEN Return(p, hp, "InvalidArgument", NoResp)
           ELSE IF ParseContentType(r.caps) = "" THEN Return(p, hp, "InvalidArgument", NoResp)
           ELSE Continue(p, [hp EXCEPT !.pc = "np_mounted", !.vol = sid.volName,
                                       !.ctype = ParseContentType(r.caps)])

\* A handler that goes on to the source whatever fs.IsMounted reports.
NodePublishVolumeAfterIsMountedAlways(mounted) == "np_source"

\* if mounted { return &csi.NodePublishVolumeResponse{}, nil } (lines 85-88).
NodePublishVolumeAfterIsMounted(mounted) == IF mounted THEN "idle" ELSE "np_source"

\* mounted, err := fs.IsMounted(targetPath) (lines 80-88).
NodePublishVolumeIsMounted(p) ==
    /\ h[p].pc = "np_mounted"
    /\ UNCHANGED <<NodeRest, node, calls>>
    /\ \E err \in {Nil, OtherError} :
        IF err # Nil THEN Return(p, [h[p] EXCEPT !.err = err], "Internal", NoResp)
        ELSE IF NodePublishVolumeAfterIsMounted(IsMounted(h[p].req.targetPath)) = "idle"
        THEN Return(p, h[p], "OK", [kind |-> "NodePublishVolume"])
        ELSE Continue(p, [h[p] EXCEPT !.pc = "np_source"])

\* The source of the bind mount by access type (lines 92-114).
NodePublishVolumeSource(p) ==
    /\ h[p].pc = "np_source"
    /\ UNCHANGED <<NodeRest, node, calls>>
    /\ IF h[p].req.caps[1] = "block"
       THEN IF ~getDiskDevicePath(h[p].vol).ok
            THEN Return(p, [h[p] EXCEPT !.err = OtherError], "Internal", NoResp)
            ELSE Continue(p, [h[p] EXCEPT !.pc = "np_mount",
                                          !.src = getDiskDevicePath(h[p].vol).dev])
       ELSE IF ~PathExists(h[p].vol)
            THEN Return(p, h[p], "NotFound", NoResp)
            ELSE Continue(p, [h[p] EXCEPT !.pc = "np_mount",
                                          !.src = <<driverFileSystemMountPath, h[p].vol>>])

\* err = fs.Mount(sourcePath, targetPath, contentType, mountOptions) (lines 116-122).
NodePublishVolumeMount(p) ==
    /\ h[p].pc = "np_mount"
    /\ UNCHANGED <<NodeRest, calls>>
    /\ LET hp == [h[p] EXCEPT !.muts = @ + 1]
       IN  \E err \in {Nil, OtherError} :
            IF err # Nil
            THEN /\ node' = node
                 /\ Return(p, [hp EXCEPT !.err = err], "Internal", NoResp)
            ELSE /\ node' = [node EXCEPT !.mounts = @ \cup
                                {MountEntry(hp.src, hp.req.targetPath, hp.ctype,
                                            mountOptions(hp.req))}]
                 /\ Return(p, hp, "OK", [kind |-> "NodePublishVolume"])

NextNode ==
    \E p \in NodeProcs :
        \/ \E r \in NodePublishRequests : NodePublishVolumeBegin(p, r)
        \/ NodePublishVolumeIsMounted(p)
        \/ NodePublishVolumeSource(p)
        \/ NodePublishVolumeMount(p)

SpecNode == InitNode /\ [][NextNode]_vars

---------------------------------------------------------------------------
(* Block-device resolution on its own: getDiskDevicePath applied to every    *)
(* volume name of a small set, on a node with any of those volumes attached. *)

DiskVolumes ==
    {<<"x", "-", "a">>, <<"x", "-", "a", "b">>, <<"x", "-", "b">>, <<"x", "-", "b", "a">>,
     <<"y", "-", "a">>}

InitDisk ==
    /\ locks = {}
    /\ volumes = <<>>
    /\ instances = [n \in {Node1} |-> <<>>]
    /\ snapshots = {}
    /\ isClustered = FALSE
    /\ volumeNamePrefix = <<>>
    /\ hasDevLXDTokenChanged = FALSE
    /\ SessionReady
    /\ node \in {[mounts |-> {}, paths |-> {}, disks |-> ds] : ds \in SUBSET DiskVolumes}
    /\ h = [p \in Procs |-> Idle]
    /\ calls = 0
    /\ \E v \in DiskVolumes :
        last = [req |-> [rpc |-> "getDiskDevicePath", volName |-> v],
                code |-> "none", resp |-> NoResp, muts |-> 0, id |-> <<>>,
                locked |-> FALSE, err |-> Nil, refreshed |-> FALSE]

\* devicePath, err := getDiskDevicePath(volName)
getDiskDevicePathCall ==
    /\ last.code = "none"
    /\ last' = [last EXCEPT !.code = IF getDiskDevicePath(last.req.volName).ok
                                     THEN "OK" ELSE "Internal",
                            !.id = getDiskDevicePath(last.req.volName).dev]
    /\ UNCHANGED <<locks, Remote, Config, h, calls>>

NextDisk == getDiskDevicePathCall

SpecDisk == InitDisk /\ [][NextDisk]_vars

---------------------------------------------------------------------------
(* Properties of the locking discipline, checked under SpecLock.            *)

LockPcs == {"cv_lock", "dv_lock", "ev_lock", "pv_lock", "uv_lock", "cs_lock", "ds_lock"}

\* The handler at p has computed its lock name and is about to call TryLock.
AtLock(p) == h[p].pc \in LockPcs

\* The handlers that hold the lock named k.
Holders(k) == {p \in Procs : h[p].locked /\ h[p].id = k}

\* The handler at p takes its next step.
Steps(p) == h'[p] # h[p]

\* The volume or snapshot identifier the handler with locals hp works on, derived
\* from its request and not from the name it locked.
Identifier(hp) ==
    CASE hp.req.rpc = "CreateVolume" -> getVolumeID(hp.target, hp.pool, hp.vol)
      [] hp.req.rpc = "CreateSnapshot" ->
            hp.req.sourceVolumeId \o <<"/">> \o DeriveSnapshotName(hp.req.name)
      [] hp.req.rpc = "DeleteSnapshot" -> hp.req.snapshotId
      [] OTHER -> hp.req.volumeId

\* The call to TryLock at p returns at once, whoever holds the lock.
TryLockReturns(p) ==
    /\ h[p].pc = "cv_lock" => ENABLED CreateVolumeTryLock(p)
    /\ h[p].pc = "dv_lock" => ENABLED DeleteVolumeTryLock(p)
    /\ h[p].pc = "ev_lock" => ENABLED ControllerExpandVolumeTryLock(p)
    /\ h[p].pc = "pv_lock" => ENABLED ControllerPublishVolumeTryLock(p)
    /\ h[p].pc = "uv_lock" => ENABLED ControllerUnpublishVolumeTryLock(p)
    /\ h[p].pc = "cs_lock" => ENABLED CreateSnapshotTryLock(p)
    /\ h[p].pc = "ds_lock" => ENABLED DeleteSnapshotTryLock(p)

\* C1: TryLock is mutually exclusive per key. At any time a key has at most one
\* holder and is in the lock table exactly while it has one; a caller of TryLock
\* obtains the lock iff the key has no holder and otherwise fails at once with no
\* unlock function (the handler returns without holding anything); so once the
\* holder has released, the next TryLock on the key succeeds.
C1_OneHolderPerKey ==
    /\ \A p \in Procs : h[p].locked => Holders(h[p].id) = {p} /\ h[p].id \in locks
    /\ \A k \in locks : Cardinality(Holders(k)) = 1

C1_TryLockOutcome ==
    \A p \in Procs :
        AtLock(p) /\ Steps(p) =>
            IF Holders(h[p].id) = {}
            THEN h'[p].locked /\ h'[p].id = h[p].id /\ locks' = locks \cup {h[p].id}
            ELSE h'[p].pc = "idle" /\ locks' = locks /\ last'.locked = FALSE

C1_TryLockMutualExclusion == [](C1_OneHolderPerKey) /\ [][C1_TryLockOutcome]_vars

\* One caller holds a key while another caller of TryLock on the same key has
\* just failed.
C1_Witness ==
    \E p \in Procs :
        /\ h[p].locked
        /\ last.code = "Aborted" /\ last.id = h[p].id /\ ~last.locked

\* C3: operations on one identifier are strictly serialized. No two of
\* CreateVolume, DeleteVolume, ControllerPublishVolume, ControllerUnpublishVolume
\* and ControllerExpandVolume are between lock acquisition and release for the
\* same VolumeId, and no two of CreateSnapshot and DeleteSnapshot for the same
\* SnapshotId.
C3_StrictSerialization ==
    \A p, q \in Procs :
        (p # q /\ h[p].locked /\ h[q].locked) => Identifier(h[p]) # Identifier(h[q])

\* A handler is inside its critical section on an identifier and a handler of
\* another RPC has just been turned away from the same identifier.
C3_Witness ==
    \E p \in Procs :
        /\ h[p].locked
        /\ last.code = "Aborted" /\ last.req.rpc # h[p].req.rpc
        /\ last.id = Identifier(h[p])

\* C4: a handler that finds its identifier locked never waits: its call to TryLock
\* returns at once, the handler returns Aborted, and it has sent no mutating
\* remote request (create, update, delete).
C4_NoWait == \A p \in Procs : TryLockReturns(p)

C4_AbortedStep ==
    \A p \in Procs :
        AtLock(p) /\ Steps(p) /\ Holders(h[p].id) # {} =>
            /\ h'[p].pc = "idle"
            /\ last'.code = "Aborted" /\ last'.req = h[p].req /\ last'.muts = 0
            /\ Remote' = Remote

C5_LocksReleased == (\A p \in Procs : h[p].pc = "idle") => locks = {}

\* Every handler has returned, the last one by context expiry while it held
\* its lock.
C5_Witness ==
    /\ \A p \in Procs : h[p].pc = "idle"
    /\ last.locked /\ last.code = "DeadlineExceeded"

\* C6: operations on different identifiers proceed in parallel. A handler whose
\* identifier no other handler holds obtains its lock at once, whatever other
\* identifiers are held.
C6_AcquireStep ==
    \A p \in Procs :
        (/\ AtLock(p) /\ Steps(p)
         /\ \A q \in Procs : h[q].locked => Identifier(h[q]) # Identifier(h[p]))
        => h'[p].locked /\ h'[p].pc # "idle"

C6_IndependentIdentifiers ==
    /\ [](\A p \in Procs : TryLockReturns(p))
    /\ [][C6_AcquireStep]_vars

\* Two handlers are inside their critical sections at once, on different
\* identifiers.
C6_Witness ==
    \E p, q \in Procs :
        /\ h[p].locked /\ h[q].locked
        /\ Identifier(h[p]) # Identifier(h[q])

---------------------------------------------------------------------------
(* Properties of the volume life cycle, checked under Spec.                 *)

\* The remote volume the handler with locals hp works on.
VolumeOf(hp) == VolKey(hp.member, hp.pool, hp.vol)

\* The handler at p returns in this step.
Returns(p) == h[p].pc # "idle" /\ h'[p].pc = "idle"

IsCreate(hp) == hp.req.rpc = "CreateVolume"

\* C2 as stated: of two overlapping CreateVolume calls with the same derived
\* resource name and the same pool, at most one gets as far as sending the remote
\* create request.
C2_OneCreatePerNameAndPool ==
    \A p, q \in Procs :
        (/\ p # q /\ IsCreate(h[p]) /\ IsCreate(h[q])
         /\ h[p].vol = h[q].vol /\ h[p].pool = h[q].pool)
        => ~(h[p].muts > 0 /\ h[q].muts > 0)

\* C2, with the lock name the code uses: of two overlapping CreateVolume calls with
\* the same volume ID (target, pool and derived resource name), at most one is past
\* TryLock, only that one sends a create request, and the one that calls TryLock
\* while the other holds the lock returns Aborted, having sent no create request.
C2_SerializedInv ==
    /\ \A p, q \in Procs :
        (/\ p # q /\ IsCreate(h[p]) /\ IsCreate(h[q])
         /\ h[p].locked /\ h[q].locked)
        => Identifier(h[p]) # Identifier(h[q])
    /\ \A p \in Procs : IsCreate(h[p]) /\ h[p].muts > 0 => h[p].locked

C2_AbortedStep ==
    \A p \in Procs :
        (/\ h[p].pc = "cv_lock" /\ Steps(p)
         /\ \E q \in Procs : /\ q # p /\ IsCreate(h[q]) /\ h[q].locked
                             /\ Identifier(h[q]) = Identifier(h[p]))
        => /\ Returns(p)
           /\ last'.code = "Aborted" /\ last'.muts = 0
           /\ volumes' = volumes

C2_OneCreatePerVolumeId == [](C2_SerializedInv) /\ [][C2_AbortedStep]_vars

\* One CreateVolume has sent its create request and holds the lock; another
\* CreateVolume for the same volume ID has just returned Aborted without one.
C2_Witness ==
    \E p \in Procs :
        /\ IsCreate(h[p]) /\ h[p].pc = "cv_wait" /\ h[p].muts = 1
        /\ IsCreate(last) /\ last.code = "Aborted" /\ last.muts = 0
        /\ last.req.name = h[p].req.name /\ last.id = h[p].id

\* C7: DeleteVolume is idempotent. When the remote delete answers Not Found, the
\* volume being absent, DeleteVolume returns success and never NotFound; and when
\* DeleteVolume returns success the volume does not exist, so a second call on
\* the same volume ID succeeds as well.
C7_NotFoundIsSuccess ==
    last.req.rpc = "DeleteVolume" =>
        /\ last.err = StatusError(404) => last.code = "OK"
        /\ last.code # "NotFound"

C7_DeletedStep ==
    \A p \in Procs :
        (h[p].pc = "dv_wait" /\ Returns(p) /\ last'.code = "OK")
        => VolumeOf(h[p]) \notin DOMAIN volumes'

C7_DeleteVolumeIdempotent == [](C7_NotFoundIsSuccess) /\ [][C7_DeletedStep]_vars

\* A DeleteVolume of a volume that was not there has returned success.
C7_Witness ==
    /\ last.req.rpc = "DeleteVolume" /\ last.err = StatusError(404)
    /\ last.code = "OK" /\ last.muts = 1
    /\ volumes = <<>>

\* C9: ControllerExpandVolume, for configured size S and requested size R: R < S
\* returns InvalidArgument without a remote update; R = S returns success with
\* CapacityBytes = R without a remote update; R > S sends exactly one remote size
\* update and a success carries CapacityBytes = R with the volume resized to R;
\* NodeExpansionRequired is false in every success response.
C9_CompareStep ==
    \A p \in Procs :
        (/\ h[p].pc = "ev_get" /\ Steps(p)
         /\ VolumeExists(VolumeOf(h[p]))
         /\ ~(Returns(p) /\ last'.err # Nil))
        => LET S == ParseInt(volumes[VolumeOf(h[p])].size).value
               R == h[p].req.bytes
           IN  /\ R < S => /\ Returns(p) /\ last'.code = "InvalidArgument"
                           /\ last'.muts = 0 /\ volumes' = volumes
               /\ R = S => /\ Returns(p) /\ last'.code = "OK"
                           /\ last'.resp.capacityBytes = R
                           /\ last'.muts = 0 /\ volumes' = volumes
               /\ R > S => /\ h'[p].pc = "ev_update" /\ h'[p].muts = 0
                           /\ volumes' = volumes

C9_UpdateStep ==
    \A p \in Procs :
        (h[p].pc = "ev_wait" /\ Returns(p) /\ last'.code = "OK")
        => /\ last'.muts = 1
           /\ volumes'[VolumeOf(h[p])].size = FormatInt(h[p].req.bytes)

C9_Responses ==
    /\ \A p \in Procs : h[p].req.rpc = "ControllerExpandVolume" =>
            /\ h[p].muts <= 1
            /\ h[p].pc = "ev_wait" => h[p].muts = 1
    /\ (last.req.rpc = "ControllerExpandVolume" /\ last.code = "OK") =>
            /\ last.resp.capacityBytes = last.req.bytes
            /\ last.resp.nodeExpansionRequired = FALSE
            /\ last.muts <= 1

C9_ExpandBySize == [](C9_Responses) /\ [][C9_CompareStep /\ C9_UpdateStep]_vars

\* An expansion to a larger size has succeeded with one remote update.
C9_Witness ==
    /\ last.req.rpc = "ControllerExpandVolume" /\ last.code = "OK"
    /\ last.muts = 1 /\ last.req.bytes = MaxBytes
    /\ last.resp.capacityBytes = MaxBytes
    /\ \E k \in DOMAIN volumes : volumes[k].size = FormatInt(MaxBytes)

\* C10: a CreateVolume whose lookup finds a remote volume with the derived
\* resource name in the pool returns AlreadyExists and sends no create request,
\* whether or not the size and content type of that volume match the request.
C10_ExistingStep ==
    \A p \in Procs :
        (/\ h[p].pc = "cv_getvol" /\ Steps(p)
         /\ VolumeExists(VolumeOf(h[p]))
         /\ ~(Returns(p) /\ last'.err # Nil))
        => /\ Returns(p)
           /\ last'.code = "AlreadyExists" /\ last'.muts = 0
           /\ volumes' = volumes

C10_ExistingIsAlreadyExists ==
    /\ [](IsCreate(last) /\ last.code = "AlreadyExists" /\ last.err = Nil => last.muts = 0)
    /\ [][C10_ExistingStep]_vars

\* A CreateVolume has returned AlreadyExists for a volume that has exactly the
\* size and content type it asked for.
C10_Witness ==
    /\ IsCreate(last) /\ last.code = "AlreadyExists" /\ last.err = Nil /\ last.muts = 0
    /\ \E k \in DOMAIN volumes :
        /\ k[3] = DeriveName(last.req.name, volumeNamePrefix)
        /\ volumes[k].size = FormatInt(last.req.bytes)
        /\ volumes[k].contentType = "filesystem"

---------------------------------------------------------------------------
(* Properties of attachment, checked under SpecAttach.                      *)

\* The instance of the handler's request has a disk device named after the
\* handler's volume, with that volume as source and the volume's pool as pool.
Attached(hp) ==
    /\ InstanceExists(hp.req.nodeId)
    /\ hp.vol \in DOMAIN instances[hp.req.nodeId]
    /\ LET dev == instances[hp.req.nodeId][hp.vol]
       IN  dev.type = "disk" /\ dev.source = hp.vol /\ dev.pool = hp.pool

\* C8: ControllerPublishVolume is idempotent. A call that finds the device already
\* correctly attached to the instance returns success without sending an instance
\* update, so publishing the same volume to the same instance twice in a row
\* succeeds both times with one update in all.
C8_AttachedStep ==
    \A p \in Procs :
        (/\ h[p].pc = "pv_getinst" /\ Steps(p)
         /\ Attached(h[p])
         /\ ~(Returns(p) /\ last'.err # Nil))
        => /\ Returns(p)
           /\ last'.code = "OK" /\ last'.muts = 0
           /\ instances' = instances

C8_PublishIdempotent ==
    /\ [](\A p \in Procs : h[p].req.rpc = "ControllerPublishVolume" => h[p].muts <= 1)
    /\ [][C8_AttachedStep]_vars

\* A second ControllerPublishVolume has succeeded without an update: the device is
\* attached, which only an earlier publish can have done.
C8_Witness ==
    /\ last.req.rpc = "ControllerPublishVolume" /\ last.code = "OK" /\ last.muts = 0
    /\ last.req.volumeId = IdOf(<<>>, NameA)
    /\ DeriveName(NameA, <<>>) \in DOMAIN instances[Node1]

---------------------------------------------------------------------------
(* Properties of request validation, checked under SpecValidate.             *)

\* The step is a call that returned before its handler left the entry block.
ReturnsAtEntry == calls' = calls + 1 /\ h' = h

\* The capability set names both access types, or neither.
BadCapabilitySet(caps) ==
    LET block == \E i \in 1..Len(caps) : caps[i] = "block"
        mount == \E i \in 1..Len(caps) : caps[i] = "mount"
    IN  (block /\ mount) \/ (~block /\ ~mount)

\* The pool parameter is missing or empty, or there is a key that is neither the
\* pool key nor one of the orchestrator's own "csi.storage.k8s.io/" keys.
BadParameters(params) ==
    \/ ParameterStoragePool \notin DOMAIN params
    \/ params[ParameterStoragePool] = <<>>
    \/ \E k \in DOMAIN params :
        k # ParameterStoragePool
        /\ k \notin {"csi.storage.k8s.io/pvc/name", "csi.storage.k8s.io/pvc/namespace",
                     "csi.storage.k8s.io/pv/name"}

InvalidCreate(r) == r.bytes < 1 \/ BadCapabilitySet(r.caps) \/ BadParameters(r.params)

\* C11: CreateVolume, once it has its session, returns InvalidArgument and creates
\* no remote volume when the required capacity is less than 1, when the capability
\* set names both block and filesystem access or neither, when the storage-pool
\* parameter is missing or empty, or when the parameters hold an unrecognized key
\* (the internal driver-name key included).
C11_Rejected ==
    /\ (IsCreate(last) /\ InvalidCreate(last.req) /\ last.err = Nil)
        => last.code = "InvalidArgument" /\ last.muts = 0
    /\ \A p \in Procs : (IsCreate(h[p]) /\ h[p].pc # "idle") => ~InvalidCreate(h[p].req)

C11_RejectedStep ==
    (ReturnsAtEntry /\ IsCreate(last') /\ InvalidCreate(last'.req)) => volumes' = volumes

C12_RejectedStep ==
    (ReturnsAtEntry /\ last'.code = "InvalidArgument") => ~last'.refreshed

C12_NoRemoteCallBeforeValidation == [][C12_RejectedStep]_vars

---------------------------------------------------------------------------
(* Properties of the CreateVolume response, checked under Spec.              *)

\* The handler at p returns from a successful wait for the create operation.
CreateSucceeds(p) == h[p].pc = "cv_wait" /\ Returns(p) /\ last'.code = "OK"

\* The volumes of the pool that carry the name, on whatever cluster member.
VolumesNamed(vols, poolName, volName) ==
    {k \in DOMAIN vols : k[2] = poolName /\ k[3] = volName}

\* C13 as stated: after a successful CreateVolume exactly one remote volume with
\* the derived name exists in the pool.
C13_OneVolumeStep ==
    \A p \in Procs :
        CreateSucceeds(p) =>
            Cardinality(VolumesNamed(volumes', last'.req.params[ParameterStoragePool],
                                     DeriveName(last'.req.name, volumeNamePrefix))) = 1

C13_OneVolumeInPool == [][C13_OneVolumeStep]_vars

\* C13, per cluster member: a successful CreateVolume returns VolumeId equal to the
\* encoding of (target, pool, derived resource name), CapacityBytes equal to the
\* requested bytes, the request's content source, and a volume context holding the
\* request parameters plus the resolved storage driver name; it has sent one create
\* request, and the volume with the derived name, the requested size and the
\* requested content type then exists in the pool on the member the request was
\* bound to.
C13_ResponseStep ==
    \A p \in Procs :
        CreateSucceeds(p) =>
            LET r == last'.req
                poolName == r.params[ParameterStoragePool]
                volName == DeriveName(r.name, volumeNamePrefix)
                k == VolKey(h[p].member, poolName, volName)
            IN  /\ last'.resp.volumeId = getVolumeID(h[p].target, poolName, volName)
                /\ last'.resp.capacityBytes = r.bytes
                /\ last'.resp.contentSource = r.source
                /\ DOMAIN last'.resp.volumeContext = DOMAIN r.params \cup {ParameterStorageDriver}
                /\ \A x \in DOMAIN r.params : last'.resp.volumeContext[x] = r.params[x]
                /\ last'.resp.volumeContext[ParameterStorageDriver] = PoolDriver(poolName)
                /\ last'.muts = 1
                /\ k \in DOMAIN volumes'
                /\ volumes'[k] = [size |-> FormatInt(r.bytes),
                                  contentType |-> ParseContentType(r.caps)]

C13_CreateVolumeResponse == [][C13_ResponseStep]_vars

\* A CreateVolume bound to member m has succeeded and its volume is on the server.
C13_Witness ==
    /\ IsCreate(last) /\ last.code = "OK" /\ last.muts = 1
    /\ last.resp.volumeId = getVolumeID(MemberM, PoolP, DeriveName(NameA, <<>>))
    /\ \E k \in DOMAIN volumes : k[2] = PoolP /\ k[3] = DeriveName(NameA, <<>>)
                                  /\ volumes[k].size = FormatInt(last.req.bytes)

---------------------------------------------------------------------------
(* Properties of the identifier codec.                                       *)

NoSeparator(str) == ~Contains(str, "/") /\ ~Contains(str, ":")

\* C14: identifier round trip. For every triple (locality, pool, name) in which
\* pool and name are non-empty and none of the three contains '/' or ':',
\* splitVolumeID(getVolumeID(locality, pool, name)) returns exactly (locality,
\* pool, name) without an error; and when locality is empty the encoded string is
\* pool + "/" + name, with no colon prefix.
C14_RoundTrip ==
    LET r == last.req
    IN  (/\ r.rpc = "getVolumeID"
         /\ r.poolName # <<>> /\ r.volName # <<>>
         /\ NoSeparator(r.clusterMember) /\ NoSeparator(r.poolName) /\ NoSeparator(r.volName))
        => /\ (last.code # "none" /\ r.clusterMember = <<>>)
                => last.id = r.poolName \o <<"/">> \o r.volName
           /\ last.code \notin {"none", "encoded"}
                => /\ last.code = "OK"
                   /\ last.resp.ok
                   /\ last.resp.clusterMember = r.clusterMember
                   /\ last.resp.poolName = r.poolName
                   /\ last.resp.volName = r.volName

\* A triple with a cluster member has been encoded and decoded again.
C14_Witness ==
    /\ last.req.rpc = "getVolumeID" /\ last.code = "OK"
    /\ last.req.clusterMember = <<"a">> /\ last.req.poolName = <<"a", "a">>
    /\ last.req.volName = <<"a">>
    /\ last.id = <<"a", ":", "a", "a", "/", "a">>
    /\ last.resp.poolName = <<"a", "a">>

\* C15: identifier invariant on decode. Every identifier string that
\* splitVolumeID accepts yields a pool name and a resource name that are both
\* non-empty and contain no '/', and every other string makes the calling
\* handler return InvalidArgument: a DeleteVolume that has gone past decoding
\* its VolumeId holds a non-empty pool name and a non-empty volume name free of
\* '/', and a DeleteVolume whose VolumeId is not accepted returns InvalidArgument
\* at entry.
C15_DecodedIdentifier ==
    /\ \A p \in Procs :
        (h[p].pc # "idle" /\ h[p].req.rpc = "DeleteVolume")
            => /\ h[p].pool # <<>> /\ h[p].vol # <<>>
               /\ ~Contains(h[p].pool, "/") /\ ~Contains(h[p].vol, "/")
    /\ (/\ last.code # "none" /\ last.req.rpc = "DeleteVolume" /\ last.err = Nil
        /\ ~splitVolumeID(last.req.volumeId).ok)
            => last.code = "InvalidArgument"

---------------------------------------------------------------------------
(* Properties of the volume name derivation.                                 *)

HasDash(name) == \E i \in 1..Len(name) : name[i] = "-"

FirstDash(name) == CHOOSE i \in 1..Len(name) : name[i] = "-" /\ \A j \in 1..(i - 1) : name[j] # "-"

NotDash(ch) == ch # "-"

\* C16: the resource name is a pure deterministic function of the orchestrator
\* name and the configured prefix. For a name containing a '-', it is the
\* configured prefix if that is non-empty, else the part before the first '-',
\* followed by "-" and by the part after the first '-' with every '-' removed;
\* calling it again with the same input yields the same output; a name with no
\* '-' is rejected as InvalidArgument.
C16_DerivedName ==
    LET name == last.req.name
    IN  (last.req.rpc = "DeriveName" /\ last.code # "none")
        => /\ HasDash(name)
                => /\ last.code = "OK"
                   /\ last.id = (IF volumeNamePrefix # <<>> THEN volumeNamePrefix
                                 ELSE SubSeq(name, 1, FirstDash(name) - 1))
                                \o <<"-">>
                                \o SelectSeq(SubSeq(name, FirstDash(name) + 1, Len(name)), NotDash)
           /\ ~HasDash(name) => last.code = "InvalidArgument"
           /\ last.resp # NoResp => last.resp.code = last.code /\ last.resp.volName = last.id

\* A name with two dashes has been derived twice without a configured prefix.
C16_Witness ==
    /\ last.req.rpc = "DeriveName" /\ last.req.name = <<"x", "-", "a", "-">>
    /\ volumeNamePrefix = <<>> /\ last.id = <<"x", "-", "a">>
    /\ last.resp # NoResp /\ last.resp.volName = <<"x", "-", "a">>

---------------------------------------------------------------------------
(* Properties of attachment and of snapshots.                                *)

\* The handler at p is a ControllerPublishVolume taking a step, and the step is
\* not the return of a failed remote call.
PublishStep(p) ==
    /\ h[p].req.rpc = "ControllerPublishVolume" /\ h[p].pc # "idle" /\ Steps(p)
    /\ ~(Returns(p) /\ last'.err # Nil)

\* The instance of the handler's request has a device named after its volume.
DeviceKeyed(hp) ==
    InstanceExists(hp.req.nodeId) /\ hp.vol \in DOMAIN instances[hp.req.nodeId]

\* C17: ControllerPublishVolume sends the device attach only when the volume
\* exists remotely and the instance has no device keyed by the resource name. If
\* the volume is absent it returns NotFound; if a device with that key exists and
\* its type, source or pool differ from {disk, resource name, pool} it returns
\* AlreadyExists; in both cases no update has been sent and the instance's
\* devices are unchanged.
C17_PublishStep ==
    \A p \in Procs :
        PublishStep(p)
        => /\ (h[p].pc = "pv_getvol" /\ ~VolumeExists(VolumeOf(h[p])))
                => /\ Returns(p) /\ last'.code = "NotFound"
                   /\ last'.muts = 0 /\ instances' = instances
           /\ (h[p].pc = "pv_getinst" /\ DeviceKeyed(h[p]) /\ ~Attached(h[p]))
                => /\ Returns(p) /\ last'.code = "AlreadyExists"
                   /\ last'.muts = 0 /\ instances' = instances
           /\ h[p].pc = "pv_update"
                => /\ VolumeExists(VolumeOf(h[p]))
                   /\ h[p].vol \notin DOMAIN h[p].etag
           /\ instances' # instances
                => h[p].pc = "pv_update" /\ ~DeviceKeyed(h[p])
           /\ (Returns(p) /\ last'.code \in {"NotFound", "AlreadyExists"})
                => last'.muts = 0 /\ instances' = instances

C17_PublishGuarded == [][C17_PublishStep]_vars

\* The volume of the remote pool was published to an instance that already has
\* the like-named volume of the other pool attached: AlreadyExists, and the
\* device is still the first one.
C17_Witness ==
    /\ last.req.rpc = "ControllerPublishVolume" /\ last.code = "AlreadyExists"
    /\ last.req.volumeId = AttachOtherPoolId
    /\ DeriveName(NameA, <<>>) \in DOMAIN instances[Node1]
    /\ instances[Node1][DeriveName(NameA, <<>>)].pool = PoolP

\* The handler at p takes a step that is not the return of a remote call failing
\* with something other than Not Found.
RegularStep(p) == Steps(p) /\ ~(Returns(p) /\ last'.err # Nil /\ last'.err # StatusError(404))

\* The snapshot the DeleteSnapshot with locals hp is to delete.
SnapshotOf(hp) == SnapKey(hp.member, hp.pool, hp.vol, hp.src.vol)

\* C18: Not Found on delete-style operations is converted to success. A
\* DeleteSnapshot for a snapshot that does not exist remotely and a
\* ControllerUnpublishVolume for a device or an instance that is not found both
\* return success and change nothing; and a successful DeleteSnapshot or
\* ControllerUnpublishVolume leaves the snapshot or the device absent, so
\* repeating the call meets the Not Found case and succeeds again.
C18_NotFoundStep ==
    \A p \in Procs :
        RegularStep(p)
        => /\ (h[p].pc = "ds_wait" /\ SnapshotOf(h[p]) \notin snapshots)
                => /\ Returns(p) /\ last'.code = "OK"
                   /\ last'.resp = [kind |-> "DeleteSnapshot"]
                   /\ snapshots' = snapshots
           /\ (h[p].pc = "uv_update" /\ ~DeviceKeyed(h[p]))
                => /\ Returns(p) /\ last'.code = "OK"
                   /\ last'.resp = [kind |-> "ControllerUnpublishVolume"]
                   /\ instances' = instances
           /\ (h[p].pc = "ds_wait" /\ Returns(p) /\ last'.code = "OK")
                => SnapshotOf(h[p]) \notin snapshots'
           /\ (h[p].pc = "uv_update" /\ Returns(p) /\ last'.code = "OK")
                => \A n \in DOMAIN instances' :
                        n = h[p].req.nodeId => h[p].vol \notin DOMAIN instances'[n]

C18_NotFoundIsSuccess == [][C18_NotFoundStep]_vars

\* The last of MaxCalls calls, an unpublish for a node without an instance, has
\* met Not Found and succeeded.
C18_Witness ==
    /\ calls = MaxCalls
    /\ last.req.rpc = "ControllerUnpublishVolume" /\ last.req.nodeId = NodeGone
    /\ last.code = "OK" /\ last.err = StatusError(404)

\* The handler at p is a CreateSnapshot taking a step, and the step is not the
\* return of a failed remote call.
SnapshotStep(p) ==
    /\ h[p].req.rpc = "CreateSnapshot" /\ h[p].pc # "idle" /\ Steps(p)
    /\ ~(Returns(p) /\ last'.err # Nil)

\* SourceVolumeId + "/" + the snapshot name derived from the request's name,
\* spelled out from the request.
ExpectedSnapshotId(r) ==
    LET i == FirstDash(r.name)
    IN  r.sourceVolumeId \o <<"/">> \o SubSeq(r.name, 1, i - 1) \o <<"-">>
        \o SelectSeq(SubSeq(r.name, i + 1, Len(r.name)), NotDash)

\* C19: CreateSnapshot is idempotent. A call that finds a snapshot with the
\* derived name on the source volume succeeds without sending a snapshot create;
\* every success response carries SnapshotId = SourceVolumeId + "/" + derived
\* name and ReadyToUse = true, and leaves the snapshot in place; so of two
\* successive identical calls that both return without a remote failure, the
\* second succeeds like the first with the same SnapshotId and sends no create,
\* which makes one create in all when the first call had to create the snapshot.
C19_SnapshotStep ==
    \A p \in Procs :
        SnapshotStep(p)
        => /\ (h[p].pc = "cs_get" /\ SnapshotOf(h[p]) \in snapshots)
                => /\ Returns(p) /\ last'.code = "OK" /\ last'.muts = 0
                   /\ snapshots' = snapshots
           /\ (Returns(p) /\ last'.code = "OK")
                => /\ last'.resp.snapshotId = ExpectedSnapshotId(h[p].req)
                   /\ last'.resp.sourceVolumeId = h[p].req.sourceVolumeId
                   /\ last'.resp.readyToUse
                   /\ last'.muts <= 1
                   /\ SnapshotOf(h[p]) \in snapshots'
           /\ (Returns(p) /\ last.code = "OK" /\ last.req = h[p].req)
                => /\ last'.code = "OK"
                   /\ last'.resp = last.resp
                   /\ last'.muts = 0
                   /\ last.muts + last'.muts <= 1

C19_CreateSnapshotIdempotent == [][C19_SnapshotStep]_vars

\* The second of two identical CreateSnapshot calls in a row has succeeded
\* without a create, the snapshot being the one the first call created.
C19_Witness ==
    /\ calls = 2
    /\ last.req.rpc = "CreateSnapshot" /\ last.code = "OK" /\ last.muts = 0
    /\ last.resp.snapshotId = SnapshotIdOf(NameA)
    /\ snapshots # {}

---------------------------------------------------------------------------
(* Properties of the content source.                                         *)

FromSnapshot(r) == r.rpc = "CreateVolume" /\ r.source.kind = "snapshot"

\* C20: CreateVolume with a snapshot as content source fails as Unimplemented
\* and creates no remote volume. No step of such a call sends a create request
\* or changes the remote volumes, no such call returns success, and a call that
\* has passed validation, pool lookup, lock and existence check (no like-named
\* volume exists) returns Unimplemented at the content-source dispatch.
C20_SnapshotSourceStep ==
    /\ (ReturnsAtEntry /\ FromSnapshot(last'.req))
            => last'.code # "OK" /\ last'.muts = 0 /\ volumes' = volumes
    /\ \A p \in Procs :
        (FromSnapshot(h[p].req) /\ h[p].pc # "idle" /\ Steps(p))
        => /\ volumes' = volumes
           /\ h'[p].muts = 0
           /\ Returns(p) => last'.code # "OK" /\ last'.muts = 0
           /\ (/\ h[p].pc = "cv_getvol" /\ ~VolumeExists(VolumeOf(h[p]))
               /\ ~(Returns(p) /\ last'.err # Nil))
                => Returns(p) /\ last'.code = "Unimplemented"

C20_SnapshotSourceUnimplemented == [][C20_SnapshotSourceStep]_vars

\* A CreateVolume from a snapshot has returned Unimplemented, and the volume it
\* names does not exist.
C20_Witness ==
    /\ FromSnapshot(last.req) /\ last.code = "Unimplemented" /\ last.muts = 0
    /\ last.req.name = NameB
    /\ \A k \in DOMAIN volumes : k[3] # DeriveName(NameB, volumeNamePrefix)

---------------------------------------------------------------------------
(* Properties of cloning, checked under SpecClone.                           *)

FromVolume(r) == r.rpc = "CreateVolume" /\ r.source.kind = "volume"

\* The volume the clone request names as its source.
SourceOf(hp) == VolKey(hp.src.target, hp.src.pool, hp.src.vol)

\* The content type the request's capabilities ask for.
RequestedContentType(r) == IF r.caps = <<"block">> THEN "block" ELSE "filesystem"

\* The source volume of hp has a configured size, and it is larger than n bytes.
SourceLargerThan(hp, n) ==
    \E m \in 0..(MaxBytes + 1) : volumes[SourceOf(hp)].size = FormatInt(m) /\ m > n

\* C21: clone guard. CreateVolume with a volume content source sends the copy
\* create only if the source volume exists, its content type equals the requested
\* one, its size is configured and does not exceed the requested size; a
\* content-type mismatch or a larger source returns InvalidArgument, a source
\* without configured size returns FailedPrecondition, an absent source NotFound,
\* and in each rejected case no create is sent and no volume is created.
C21_CloneStep ==
    \A p \in Procs :
        (/\ FromVolume(h[p].req) /\ h[p].pc = "cv_src" /\ Steps(p)
         /\ ~(Returns(p) /\ last'.err \notin {Nil, StatusError(404)}))
        => LET hp == h[p]
               exists == VolumeExists(SourceOf(hp))
               src == volumes[SourceOf(hp)]
               mismatch == src.contentType # RequestedContentType(hp.req)
               rejected == Returns(p) /\ last'.muts = 0 /\ volumes' = volumes
           IN  /\ ~exists => rejected /\ last'.code = "NotFound"
               /\ (exists /\ mismatch) => rejected /\ last'.code = "InvalidArgument"
               /\ (exists /\ ~mismatch /\ src.size = <<>>)
                    => rejected /\ last'.code = "FailedPrecondition"
               /\ (exists /\ ~mismatch /\ SourceLargerThan(hp, hp.req.bytes))
                    => rejected /\ last'.code = "InvalidArgument"
               /\ ~Returns(p)
                    => /\ h'[p].pc = "cv_create"
                       /\ exists /\ ~mismatch /\ src.size # <<>>
                       /\ ~SourceLargerThan(hp, hp.req.bytes)

\* The create request of a clone is sent only from a handler that has passed the
\* source check.
C21_CreateOnlyAfterCheck ==
    \A p \in Procs :
        (FromVolume(h[p].req) /\ h[p].pc \in {"cv_create", "cv_wait"})
            => h[p].src # NoSource

C21_CloneGuard == [](C21_CreateOnlyAfterCheck) /\ [][C21_CloneStep]_vars

\* A clone has been rejected because its source is larger than the request.
C21_Witness ==
    /\ FromVolume(last.req) /\ last.code = "InvalidArgument" /\ last.muts = 0
    /\ last.req.bytes = 1 /\ last.req.caps = <<"mount">>
    /\ VolumeExists(VolKey(<<>>, PoolP, DeriveName(NameA, <<>>)))
    /\ volumes[VolKey(<<>>, PoolP, DeriveName(NameA, <<>>))] =
            [size |-> FormatInt(2), contentType |-> "filesystem"]
    /\ DOMAIN volumes = {VolKey(<<>>, PoolP, DeriveName(NameA, <<>>))}

---------------------------------------------------------------------------
(* Properties of the error classifier, checked under SpecErrors.             *)

\* The status the classifier is to give each remote status code it knows.
StatusTable ==
    [c \in {400, 401, 403, 404, 409, 412} |->
        CASE c = 400 -> "InvalidArgument"
          [] c = 401 -> "Unauthenticated"
          [] c = 403 -> "PermissionDenied"
          [] c = 404 -> "NotFound"
          [] c = 409 -> "AlreadyExists"
          [] c = 412 -> "Unavailable"]

---------------------------------------------------------------------------
(* Properties of single invocations, checked under SpecValidate.             *)

\* The positions at which a handler sends its mutating request: volume create,
\* volume delete, volume size update, instance update (attach, detach), snapshot
\* create and snapshot delete.
MutatingPcs ==
    {"cv_create", "dv_delete", "ev_update", "pv_update", "uv_update", "cs_create", "ds_delete"}

\* C23: no operation is retried internally. A single invocation of any
\* controller handler sends at most one mutating remote request, whatever the
\* outcome of that request: the count of requests sent by a handler in flight, and
\* by the call that returned last, never exceeds one, and a handler leaves the
\* position at which it sends its request in the very step that sends it.
C23_AtMostOneRequest ==
    /\ last.muts <= 1
    /\ \A p \in Procs :
        /\ h[p].muts <= 1
        /\ h[p].pc \in MutatingPcs => h[p].muts = 0

C23_SendStep ==
    \A p \in Procs :
        (h[p].pc \in MutatingPcs /\ Steps(p)) => h'[p].pc \notin MutatingPcs

C23_NoInternalRetry == [](C23_AtMostOneRequest) /\ [][C23_SendStep]_vars

\* A create request has failed at the server and the call has returned the
\* failure, having sent that one request.
C23_Witness ==
    /\ last.req.rpc = "CreateVolume" /\ last.err = StatusError(500)
    /\ last.code = "Internal" /\ last.muts = 1

---------------------------------------------------------------------------
(* Properties of the session manager, checked under SpecSession.             *)

Threads == SessionProcs \cup {Main}

\* The goroutine at p takes the last step of DevLXDClient and returns to its caller.
DevLXDClientReturns(p) == h[p].pc = "dc_unlock" /\ h'[p].pc # "dc_unlock"

\* C24: the session accessor never returns a session that was not verified.
\* DevLXDClient returns a client only if one is cached and the token unchanged,
\* or if the server state queried with the re-read token reports trusted
\* authentication, and the client returned is then the one cached; on a failure to
\* read the token, to connect, to query the state, or on an untrusted result, it
\* returns an error and no client, and no step of such a call, nor any step taken
\* by anyone while a goroutine is inside DevLXDClient short of its final store,
\* touches the cached session, location, isClustered or the changed flag.
C24_SessionStep ==
    /\ \A p \in Threads :
        /\ (DevLXDClientReturns(p) /\ h[p].err = Nil)
                => /\ h[p].ret # NoClient /\ h[p].ret = devLXD
                   /\ \/ h[p].info = NoInfo /\ ~hasDevLXDTokenChanged
                      \/ /\ h[p].info.auth = "trusted"
                         /\ h[p].ret = [token |-> h[p].token]
                         /\ isClustered = h[p].info.clustered
                         /\ location = h[p].info.location
        /\ (DevLXDClientReturns(p) /\ h[p].err # Nil) => h[p].ret = NoClient
        /\ (h[p].pc \in {"dc_cached", "dc_read", "dc_connect", "dc_state", "dc_auth"}
            /\ h'[p].pc = "dc_unlock" /\ h'[p].err # Nil)
                => UNCHANGED SessionFields
        /\ (h[p].pc = "dc_store" /\ Steps(p))
                => h[p].info.auth = "trusted" /\ h[p].err = Nil
    /\ (\E p \in Threads : h[p].pc \in {"dc_cached", "dc_read", "dc_connect", "dc_state",
                                         "dc_auth", "dc_unlock"})
            => UNCHANGED SessionFields

C24_VerifiedSession == [][C24_SessionStep]_vars

\* A handler's DevLXDClient call has failed on an untrusted answer after a token
\* change, and the driver still holds the session of the first token, flagged.
C24_Witness ==
    /\ last.req.rpc = "DeleteVolume" /\ last.err = OtherError
    /\ devLXD = [token |-> 0] /\ hasDevLXDTokenChanged /\ tokenFile = 1
    /\ lock = 0

\* The step is the watcher's callback.
CallbackStep == h' = h /\ tokenFile' = tokenFile /\ calls' = calls

\* C25: credential rotation takes effect on next use and is never lost. The
\* callback leaves the changed flag set; a DevLXDClient call that finds the flag
\* set does not return the cached client but re-reads the token and
\* re-authenticates; the flag is cleared only by a call that stores a session
\* built from a token it read after the latest reported change; so at any time
\* either the flag is set or the cached session carries a token read after the
\* latest report.
C25_RotationStep ==
    /\ CallbackStep => hasDevLXDTokenChanged' /\ watched' = tokenFile
    /\ \A p \in Threads :
        (h[p].pc = "dc_cached" /\ hasDevLXDTokenChanged /\ Steps(p))
            => h'[p].pc = "dc_read" /\ h'[p].ret = NoClient
    /\ (hasDevLXDTokenChanged /\ ~hasDevLXDTokenChanged')
            => \E p \in Threads :
                /\ h[p].pc = "dc_store" /\ Steps(p)
                /\ h[p].token >= watched
                /\ h[p].info.auth = "trusted"
                /\ devLXD' = [token |-> h[p].token]

C25_RotationKept ==
    hasDevLXDTokenChanged \/ devLXD = NoClient \/ devLXD.token >= watched

C25_RotationNeverLost == [](C25_RotationKept) /\ [][C25_RotationStep]_vars

\* The token was rewritten twice and reported while serving, and a handler's call
\* has since stored a session with the second token and cleared the flag.
C25_Witness ==
    /\ h[Main].pc = "serving" /\ watched = 2
    /\ ~hasDevLXDTokenChanged /\ devLXD = [token |-> 2] /\ lock = 0


\* ---------------------------------------------------------------------------
\* C26: all access to the session manager's shared state is serialized under
\* the driver mutex: no handler is about to read isClustered (or any other
\* session field) while another thread holds the mutex and is about to assign
\* the session fields inside DevLXDClient.
\* ---------------------------------------------------------------------------
ReadsSessionField(p) == h[p].pc \in {"dc_cached", "dv_target"}

WritesSessionField(p) == h[p].pc = "dc_store"

C26_SerializedAccess ==
    \A p \in SessionProcs : \A q \in Threads :
        (p # q /\ ReadsSessionField(p) /\ WritesSessionField(q)) => lock = p


\* ---------------------------------------------------------------------------
\* C27: once WatchFile has returned successfully, every later create or write
\* of the file and every atomic symlink swap that changes what the path
\* resolves to is eventually followed by an invocation of the change handler
\* (while the context of the watch is not cancelled).
\* ---------------------------------------------------------------------------
ChangePending ==
    /\ last.watching
    /\ last.req.rpc \in {"WriteFile", "SwapLink", "SwapData"}
    /\ h[Watcher].hits = last.hits

HandlerInvoked == h[Watcher].hits > last.hits \/ watched.ctx = "done"

\* The statement as given: every such change leads to an invocation.
C27_EveryChangeReported == ChangePending ~> HandlerInvoked

\* What holds: a swap of a directory entry the path goes through is reported
\* unless the path resolves again to the file the watcher saw last.
ResolvesAsSeen == last.req.rpc = "SwapData" /\ EvalSymlinks = h[Watcher].curRealPath

C27_ChangeReported == ChangePending ~> (HandlerInvoked \/ ResolvesAsSeen)

\* The directory entry was swapped after WatchFile returned, and the handler has
\* been invoked since, the context still live.
C27_Witness ==
    /\ last.watching
    /\ last.req.rpc = "SwapData"
    /\ h[Watcher].hits > last.hits
    /\ watched.ctx = "live"


\* ---------------------------------------------------------------------------
\* C28: NodePublishVolume calls Mount at most once per call and only after it
\* found the target path not mounted. A call that finds the target mounted
\* returns without calling Mount and leaves the mount table as it is, whatever
\* options it was asked for, with success unless the check itself failed. A
\* call for a filesystem volume that gets as far as the source and finds no
\* directory of the volume under the driver's mount path returns NotFound
\* without calling Mount. A call with an empty target path returns
\* InvalidArgument.
\* ---------------------------------------------------------------------------
NodeReturns(p) == h[p].pc # "idle" /\ h'[p].pc = "idle"

C28_PublishStep ==
    /\ \A p \in NodeProcs :
        /\ (Steps(p) /\ h'[p].pc = "np_source") => ~IsMounted(h[p].req.targetPath)
        /\ (NodeReturns(p) /\ last'.muts > 0) => h[p].pc = "np_mount" /\ last'.muts = 1
        /\ (NodeReturns(p) /\ node' # node) => last'.muts = 1 /\ last'.code = "OK"
        /\ (h[p].pc = "np_mounted" /\ Steps(p) /\ IsMounted(h[p].req.targetPath))
                => /\ NodeReturns(p)
                   /\ last'.muts = 0
                   /\ node' = node
                   /\ last'.err = Nil => last'.code = "OK"
        /\ (h[p].pc = "np_source" /\ Steps(p) /\ h[p].ctype = "filesystem"
                /\ h[p].vol \notin node.paths)
                => /\ NodeReturns(p)
                   /\ last'.code = "NotFound"
                   /\ last'.muts = 0
                   /\ node' = node
    /\ (calls' = calls + 1 /\ h' = h /\ last'.req.targetPath = "")
            => last'.code = "InvalidArgument" /\ last'.muts = 0 /\ node' = node

C28_InFlight ==
    /\ last.muts <= 1
    /\ \A p \in NodeProcs : h[p].pc # "idle" => h[p].req.targetPath # "" /\ h[p].muts = 0

C28_MountOnlyWhenNotMounted == [](C28_InFlight) /\ [][C28_PublishStep]_vars

\* A read-only publish to a target that is bind mounted read-write has returned
\* success without a Mount call, the mount table as it was.
C28_Witness ==
    /\ last.req.rpc = "NodePublishVolume"
    /\ last.req.readonly
    /\ last.code = "OK"
    /\ last.muts = 0
    /\ IsMounted(last.req.targetPath)
    /\ \A m \in node.mounts : m.options = <<"bind">>


\* ---------------------------------------------------------------------------
\* C29: the VolumeId of a successful CreateVolume carries a locality prefix only
\* when the server is clustered and the pool's driver is node-local; in every
\* other case it is pool/name.
\* ---------------------------------------------------------------------------
CreateSucceeded == last.req.rpc = "CreateVolume" /\ last.code = "OK"

RequestedPool == last.req.params[ParameterStoragePool]

NodeLocalPool == RequestedPool = PoolP

PlainId == RequestedPool \o <<"/">> \o <<"x", "-", "a">>

\* The statement as given.
C29_PrefixOnlyWhenClustered ==
    CreateSucceeded =>
        IF isClustered /\ NodeLocalPool
        THEN last.resp.volumeId \in {PlainId, MemberM \o <<":">> \o PlainId}
        ELSE last.resp.volumeId = PlainId

\* What holds: the prefix is the cluster member of the first preferred topology
\* that names one, present whenever the pool's driver is node-local, on a
\* clustered and on a standalone server alike.
NamesMember == \E i \in 1..Len(last.req.preferred) : last.req.preferred[i] # "nokey"

C29_PrefixFollowsTopology ==
    CreateSucceeded =>
        IF NodeLocalPool /\ NamesMember
        THEN last.resp.volumeId = MemberM \o <<":">> \o PlainId
        ELSE last.resp.volumeId = PlainId

\* A create for the node-local pool preferring member m has succeeded on a
\* clustered server with the member in its VolumeId.
C29_Witness ==
    /\ CreateSucceeded
    /\ isClustered
    /\ NodeLocalPool
    /\ last.resp.volumeId = <<"m", ":", "p", "/", "x", "-", "a">>


\* ---------------------------------------------------------------------------
\* C30: the RPC server serves only after the configuration was validated and an
\* initial session was established and verified as trusted. When the bootstrap
\* fails Run returns before it binds the socket and the process never serves, so
\* a Probe is answered (always ready) only by a process that holds a session
\* stored after a trusted GetState.
\* ---------------------------------------------------------------------------
PastBootstrap == h[Main].pc \in {"run_watch", "run_listen", "serving"}

C30_Bootstrapped ==
    /\ PastBootstrap => IsHostname(volumeNamePrefix) /\ devLXD # NoClient
    /\ (\E p \in SessionProcs : h[p].pc # "idle") => h[Main].pc = "serving"
    /\ last.req.rpc # "none" => h[Main].pc = "serving"

C30_RunStep ==
    /\ (h[Main].pc = "dc_unlock" /\ h[Main].err # Nil /\ Steps(Main)) => h'[Main].pc = "exited"
    /\ h[Main].pc = "exited" => h'[Main].pc = "exited"
    /\ devLXD' # devLXD
        => \E p \in Threads : h[p].pc = "dc_store" /\ h[p].info.auth = "trusted" /\ Steps(p)
    /\ (calls' = calls + 1 /\ last'.req.rpc = "Probe")
        => h[Main].pc = "serving" /\ devLXD # NoClient /\ last'.resp.ready

C30_ServesOnlyAfterBootstrap == [](C30_Bootstrapped) /\ [][C30_RunStep]_vars

\* A Probe has been answered ready by the serving process, which holds a session.
C30_Witness ==
    /\ last.req.rpc = "Probe"
    /\ last.resp.ready
    /\ h[Main].pc = "serving"
    /\ devLXD # NoClient


\* ---------------------------------------------------------------------------
\* C32: of the DevLXDClient calls that run concurrently after one credential
\* change, or on first use, one re-authenticates and the others return the
\* session it cached. At most one goroutine at a time is between the cache test
\* and the return; a call goes on to re-read the token only when no session is
\* cached or the changed flag is set; a successful re-authentication caches the
\* session and clears the flag; and the flag is set again only by the watcher's
\* callback, so that every call entering after the store and before the next
\* reported change returns the cached session without reading the token.
\* ---------------------------------------------------------------------------
InsideDevLXDClient(p) ==
    h[p].pc \in {"dc_cached", "dc_read", "dc_connect", "dc_state", "dc_auth", "dc_store",
                 "dc_unlock"}

C32_OneInside ==
    \A p, q \in Threads : (InsideDevLXDClient(p) /\ InsideDevLXDClient(q)) => p = q /\ lock = p

C32_ReauthStep ==
    /\ \A p \in Threads :
        /\ (Steps(p) /\ h'[p].pc = "dc_read")
                => h[p].pc = "dc_cached" /\ (devLXD = NoClient \/ hasDevLXDTokenChanged)
        /\ (h[p].pc = "dc_cached" /\ Steps(p) /\ devLXD # NoClient /\ ~hasDevLXDTokenChanged)
                => /\ h'[p].pc = "dc_unlock"
                   /\ h'[p].ret = devLXD
                   /\ h'[p].token = h[p].token /\ h'[p].info = NoInfo
        /\ (h[p].pc = "dc_store" /\ Steps(p))
                => ~hasDevLXDTokenChanged' /\ devLXD' = h[p].client /\ devLXD' # NoClient
    /\ (hasDevLXDTokenChanged' /\ ~hasDevLXDTokenChanged) => CallbackStep
    /\ (devLXD # NoClient) => devLXD' # NoClient

C32_SingleReauthentication == [](C32_OneInside) /\ [][C32_ReauthStep]_vars

\* Two handlers called DevLXDClient after the token changed: the first re-read the
\* token and cached the session, the second is returning that session without
\* having read anything.
C32_Witness ==
    /\ h[1].pc = "dv_target" /\ h[1].token = 1 /\ h[1].ret = devLXD
    /\ h[2].pc = "dc_unlock" /\ h[2].token = 0 - 1 /\ h[2].info = NoInfo /\ h[2].ret = devLXD
    /\ devLXD = [token |-> 1]


\* ---------------------------------------------------------------------------
\* C33: when calls for different volumes race on one instance and the server
\* rejects an instance update for a stale ETag, the rejected call returns
\* Unavailable and the instance keeps the devices it has, the other call's
\* included. An update is applied only on the view of the instance it was
\* computed from, and keeps every other device. A publish whose view is still
\* current when it sends its update - a retry that runs undisturbed - is not
\* rejected for its ETag: it attaches its device unless the remote call fails.
\* ---------------------------------------------------------------------------
AtPublishUpdate(p) == h[p].pc = "pv_update" /\ Steps(p)

DevicesOf(n) == instances[n]

C33_RaceStep ==
    \A p \in {1, 2} :
        AtPublishUpdate(p)
        => LET n == h[p].req.nodeId
           IN  /\ h'[p].pc = "idle"
               /\ last'.err = StatusError(412)
                    <=> (DevicesOf(n) # h[p].etag /\ last'.code = "Unavailable")
               /\ last'.code # "OK" => instances' = instances
               /\ last'.code = "OK"
                    => /\ DevicesOf(n) = h[p].etag
                       /\ h[p].vol \in DOMAIN instances'[n]
                       /\ \A d \in DOMAIN instances[n] :
                            d \in DOMAIN instances'[n] /\ instances'[n][d] = instances[n][d]
               /\ DevicesOf(n) = h[p].etag => last'.code \in {"OK", "Internal"}

C33_StaleUpdateRejected == [][C33_RaceStep]_vars

\* The publish of the second volume was rejected for a stale ETag while the
\* first volume's device stayed; the orchestrator has called again, and the
\* retry is about to send its update on the current view of the instance.
C33_Witness ==
    /\ last.req.rpc = "ControllerPublishVolume"
    /\ last.req.volumeId = <<"p", "/", "x", "-", "b">>
    /\ last.code = "Unavailable"
    /\ DOMAIN instances[Node1] = {<<"x", "-", "a">>}
    /\ \E p \in {1, 2} :
        /\ h[p].pc = "pv_update"
        /\ h[p].req = last.req
        /\ h[p].etag = instances[Node1]


\* ---------------------------------------------------------------------------
\* C34: CreateSnapshot derives the snapshot name the way CreateVolume derives
\* the volume name: for every request name and every configured prefix the two
\* derivations of the same name give the same result.
\* ---------------------------------------------------------------------------
BothDerived == last.req.rpc = "DeriveName" /\ last.code # "none" /\ last.resp # NoResp

\* The statement as given.
C34_SameDerivation ==
    BothDerived => last.resp.code = last.code /\ last.resp.snapshotName = last.id

\* What holds: both accept the same names and both strip the dashes after the
\* first one, but the snapshot name always begins with the part of the request
\* name before its first dash, where the volume name begins with the configured
\* prefix if there is one; the two are equal when no prefix is configured.
C34_SameButForPrefix ==
    BothDerived =>
        /\ last.resp.code = last.code
        /\ last.code = "OK" =>
            LET name == last.req.name
                own  == SubSeq(name, 1, FirstDash(name) - 1)
                rest == <<"-">> \o SelectSeq(SubSeq(name, FirstDash(name) + 1, Len(name)), NotDash)
            IN  /\ last.resp.snapshotName = own \o rest
                /\ last.id = (IF volumeNamePrefix # <<>> THEN volumeNamePrefix ELSE own) \o rest
                /\ volumeNamePrefix = <<>> => last.resp.snapshotName = last.id

\* With the prefix k configured the name x-a gives the volume name k-a and the
\* snapshot name x-a.
C34_Witness ==
    /\ volumeNamePrefix = <<"k">>
    /\ last.req.name = <<"x", "-", "a">>
    /\ last.id = <<"k", "-", "a">>
    /\ last.resp # NoResp
    /\ last.resp.snapshotName = <<"x", "-", "a">>


\* ---------------------------------------------------------------------------
\* C35: name shortening keeps names unique: two distinct names accepted by
\* CreateVolume under the same configuration get distinct remote names.
\* ---------------------------------------------------------------------------
TwoAccepted ==
    /\ last.req.rpc = "DeriveName" /\ last.resp # NoResp
    /\ last.code = "OK" /\ last.resp.code = "OK"
    /\ last.req.name # last.req.other

OwnPrefix(name) == SubSeq(name, 1, FirstDash(name) - 1)

Stripped(name) == SelectSeq(SubSeq(name, FirstDash(name) + 1, Len(name)), NotDash)

RetryAttempted == \E p \in RetryProcs : h[p].pc # "idle" /\ h[p].req = RetryRequest

RetryAnswered ==
    /\ RetrySucceeded
    /\ last.resp # NoResp
    /\ last.resp.volumeId = IdOf(<<>>, NameA)

C36_RetryConverges == RetryAttempted ~> RetryAnswered


\* ---------------------------------------------------------------------------
\* C37: every VolumeId returned by a successful CreateVolume is accepted by
\* splitVolumeID and decodes to the target, pool and derived name CreateVolume
\* used.
\* ---------------------------------------------------------------------------
\* The target, pool and name of the volume the last CreateVolume answered with.
UsedByCreate ==
    [ok |-> TRUE,
     clusterMember |-> IF last.resp.accessibleTopology = <<>> THEN <<>>
                       ELSE last.resp.accessibleTopology[1],
     poolName |-> RequestedPool,
     volName |-> DeriveName(last.req.name, volumeNamePrefix)]

DecodesBack == splitVolumeID(last.resp.volumeId) = UsedByCreate

SizeOf(vs, k) == ParseInt(vs[k].size).value

\* The volumes that exist before and after the step.
Kept == DOMAIN volumes \cap DOMAIN volumes'

\* The handler at p ends its wait on volume k in this step, returning `code`.
ExpandEnds(p, k, code) ==
    /\ h[p].pc = "ev_wait" /\ h'[p].pc = "idle"
    /\ VolKey(h[p].member, h[p].pool, h[p].vol) = k
    /\ last'.req = h[p].req /\ last'.code = code
    /\ SizeOf(volumes', k) = h[p].req.bytes

\* The statement as given, step by step: no size decreases, and a size changes
\* only to the size of an expand call that returns success in that step.
C38_StepAsGiven ==
    \A k \in Kept :
        /\ SizeOf(volumes', k) >= SizeOf(volumes, k)
        /\ SizeOf(volumes', k) # SizeOf(volumes, k)
            => \E p \in {1, 2} : ExpandEnds(p, k, "OK")

C38_SizeIsLargestSuccess == [][C38_StepAsGiven]_vars

\* What holds: no size decreases; a size changes only at the end of the wait of an
\* expand call for that size, which returns success or, when the deadline ended
\* the wait before the server had finished, DeadlineExceeded; and an expand call
\* that returns success leaves the volume with the size it asked for.
C38_ExpandStep ==
    /\ \A k \in Kept :
        /\ SizeOf(volumes', k) >= SizeOf(volumes, k)
        /\ SizeOf(volumes', k) # SizeOf(volumes, k)
            => \E p \in {1, 2} : ExpandEnds(p, k, "OK") \/ ExpandEnds(p, k, "DeadlineExceeded")
    /\ \A p \in {1, 2} :
        /\ h[p].req.rpc = "ControllerExpandVolume"
        /\ h'[p].pc = "idle"
        /\ last'.code = "OK"
        => LET k == VolKey(h[p].member, h[p].pool, h[p].vol)
           IN  k \in DOMAIN volumes' /\ SizeOf(volumes', k) = h[p].req.bytes

C38_SizeNeverDecreases == [][C38_ExpandStep]_vars

\* An expand call sent an update and returned success, and the volume has the
\* size it asked for, larger than the smallest size.
C38_Witness ==
    /\ last.req.rpc = "ControllerExpandVolume"
    /\ last.code = "OK"
    /\ last.muts = 1
    /\ last.req.bytes > 1
    /\ \E k \in DOMAIN volumes : SizeOf(volumes, k) = last.req.bytes


\* ---------------------------------------------------------------------------
\* C39: attach and detach change only the device keyed by the volume's resource
\* name: ControllerPublishVolume and ControllerUnpublishVolume leave every other
\* device of the target instance, and all devices of every other instance,
\* unchanged.
\* ---------------------------------------------------------------------------
\* The device d of instance n, or NoDevice.
NoDevice == [type |-> "none"]

DeviceAt(insts, n, d) == IF d \in DOMAIN insts[n] THEN insts[n][d] ELSE NoDevice

AtInstanceUpdate(p) == h[p].pc \in {"pv_update", "uv_update"} /\ h'[p].pc = "idle"

C39_FrameStep ==
    \A n \in DOMAIN instances :
        \A d \in DOMAIN instances[n] \cup DOMAIN instances'[n] :
            DeviceAt(instances', n, d) # DeviceAt(instances, n, d)
            => \E p \in {1, 2} :
                /\ AtInstanceUpdate(p)
                /\ h[p].req.nodeId = n
                /\ h[p].vol = d

C39_OnlyOwnDevice == [](DOMAIN instances = {Node1, Node2}) /\ [][C39_FrameStep]_vars

\* Volume x-a was attached to instance n1, which also holds its own device and
\* that of x-b; instance n2 holds its own device.
C39_Witness ==
    /\ last.req.rpc = "ControllerPublishVolume"
    /\ last.code = "OK"
    /\ last.req.nodeId = Node1
    /\ last.req.volumeId = IdOf(<<>>, NameA)
    /\ DOMAIN instances[Node1] = {RootDevice, NameA, NameB}
    /\ RootDevice \in DOMAIN instances[Node2]


\* ---------------------------------------------------------------------------
\* C40: block-device resolution returns only the requested volume's device: with
\* several volumes attached, getDiskDevicePath(v) never returns the device of a
\* different volume w, and it returns an error when no device of v is present.
\* ---------------------------------------------------------------------------
DiskResolved == last.req.rpc = "getDiskDevicePath" /\ last.code # "none"

C40_OnlyOwnDevice ==
    DiskResolved =>
        /\ last.code = "OK" => last.id = DeviceName(last.req.volName)
        /\ last.req.volName \notin node.disks => last.code = "Internal"

====
